---- MODULE Spec2Model ----
(***************************************************************************)
(* gitparator: the glob matcher (package wildpath), the ignore stack       *)
(* (package gitignore) and, of package main, the directory walker, the     *)
(* archive walker, the comparison of two file lists and the command's run. *)
(*                                                                         *)
(* A string is a sequence of one-character strings, so that it can be      *)
(* indexed, sliced and split the way the Go code does.  Indices and slice  *)
(* bounds keep Go's 0-based convention (At, Slice).  The functions of      *)
(* package wildpath return an outcome: "true" or "false" when the Go       *)
(* function returns, "panic" when an index or slice expression would be    *)
(* out of range, "diverge" when a loop runs past its iteration budget.     *)
(***************************************************************************)
EXTENDS Integers, Sequences, FiniteSets, TLC

VARIABLES
    patterns,   \* Stack.patterns: the pushed groups, first pushed first
    basePath,   \* Stack.basePath
    op,         \* the last call on the stack: "new", "push", "pop", "popEmpty", "query"
    qPath,      \* the argument of the last ShouldIgnore call
    qResult,    \* the value the last ShouldIgnore call on a Stack of its own returned
                \* (the walker uses the value of its calls in the loop body at once)
    ref,        \* history: the reference LIFO, a cons list <<top, rest>>
    mPattern,   \* matcher run: the pattern argument of Match
    mPath,      \* matcher run: the filename argument of Match
    mpc,        \* matcher run: "idle", "ready" (inputs drawn), "done" (Match returned)
    mOutcome,   \* matcher run: the outcome of the call
    wDir,       \* walker: the dir argument of getAllFilesFromDir
    wTree,      \* walker: the directory tree found at dir
    wExclude,   \* walker: the excludePaths argument
    wRespect,   \* walker: the respectGitignore argument
    wFrames,    \* walker: the active scanDir calls, outermost first
    wFiles,     \* walker: files
    wExcluded,  \* walker: excludedFiles
    wpc,        \* walker: "idle", "scan" (scanDir running), "done" (scanDir(dir) returned)
    wReturned,  \* history: the last scanDir call that returned (exit "none" before it)
    zArchive,   \* archive walker: r.File, the entries of the archive in stored order
    zExclude,   \* archive walker: the excludePaths argument
    zRespect,   \* archive walker: the respectGitignore argument
    gitignorePatterns,  \* archive walker: the map from directory to patterns, as
                \* a set of [dir, patterns] records with one record per dir
    zIdx,       \* archive walker: the index of the entry the running loop is at
    zFiles,     \* archive walker: files
    zExcluded,  \* archive walker: excludedFiles
    zpc,        \* archive walker: "idle", "collect" (first loop), "process" (second
                \* loop), "done"
    cMode,      \* comparison: "dir" (compareRepos) or "zip" (compareWithZip)
    cSame,      \* comparison: the relative paths whose content is the same on both sides
    sourceDir,  \* compareFileLists: argument
    targetDir,  \* compareFileLists: argument (the archive's path for compareWithZip)
    sourceFiles,  \* compareFileLists: argument
    targetFiles,  \* compareFileLists: argument
    sourceMap,  \* compareFileLists: map as a set of [key, file] records
    targetMap,  \* compareFileLists: map as a set of [key, file] records
    cSeen,      \* compareFileLists: the keys a range loop has visited, per map:
                \* [source, target]
    result,     \* compareFileLists: the four lists of *result
    cpc,        \* compareFileLists: "idle", "maps" (called), "loops" (maps built),
                \* "done" (lists sorted)
    flags,      \* run: the targets and --config given on the command line
    configFile, \* run: the configuration file viper finds: [state, targets, versionOk]
    env,        \* run: [targetExists, cloneOk, reportOk], what os.Stat, PlainClone and
                \* generateHTMLReport will meet
    config,     \* run: the target fields of the Config main passes to runMain
    rpc,        \* run: "idle", "start", "preRun" (PersistentPreRunE returned nil),
                \* "failed" (it returned an error), "done" (runMain returned or exited)
    rExit,      \* run: the exit status "0" or "1" ("none" while running)
    rEffects    \* history: what the run did, a subset of {"clone", "compare", "report"}

vars ==
    <<patterns, basePath, op, qPath, qResult, ref, mPattern, mPath, mpc, mOutcome,
      wDir, wTree, wExclude, wRespect, wFrames, wFiles, wExcluded, wpc, wReturned,
      zArchive, zExclude, zRespect, gitignorePatterns, zIdx, zFiles, zExcluded, zpc,
      cMode, cSame, sourceDir, targetDir, sourceFiles, targetFiles, sourceMap, targetMap,
      cSeen, result, cpc,
      flags, configFile, env, config, rpc, rExit, rEffects>>
walkVars == <<wDir, wTree, wExclude, wRespect, wFrames, wFiles, wExcluded, wpc, wReturned>>
stackVars == <<patterns, basePath, op, qPath, qResult, ref>>
matchVars == <<mPattern, mPath, mpc, mOutcome>>
zipVars == <<zArchive, zExclude, zRespect, gitignorePatterns, zIdx, zFiles, zExcluded, zpc>>
cmpVars ==
    <<cMode, cSame, sourceDir, targetDir, sourceFiles, targetFiles, sourceMap, targetMap,
      cSeen, result, cpc>>
mainVars == <<flags, configFile, env, config, rpc, rExit, rEffects>>
toolVars == <<zipVars, cmpVars, mainVars>>

(***************************************************************************)
(* Go strings and slices.                                                  *)
(***************************************************************************)
At(s, i) == s[i + 1]
InRange(s, i) == i >= 0 /\ i < Len(s)
Slice(s, lo, hi) == SubSeq(s, lo + 1, hi)
SliceOK(s, lo, hi) == 0 <= lo /\ lo <= hi /\ hi <= Len(s)
Out(b) == IF b THEN "true" ELSE "false"

\* The code point of a character (Go compares runes numerically).
Code(c) ==
    CASE c = "!" -> 33 [] c = "*" -> 42 [] c = "," -> 44 [] c = "-" -> 45
      [] c = "." -> 46 [] c = "/" -> 47 [] c = "?" -> 63 [] c = "[" -> 91
      [] c = "\\" -> 92 [] c = "]" -> 93 [] c = "^" -> 94 [] c = "a" -> 97
      [] c = "b" -> 98 [] c = "c" -> 99 [] c = "d" -> 100 [] c = "o" -> 111
      [] c = "p" -> 112 [] c = "q" -> 113 [] c = "t" -> 116 [] c = "x" -> 120
      [] c = "{" -> 123 [] c = "}" -> 125

\* strings.Index(s, c) for a one-character c: the first 0-based position, or -1.
IndexOf(s, c) ==
    IF \E k \in 1..Len(s) : s[k] = c
    THEN (CHOOSE k \in 1..Len(s) : s[k] = c /\ \A m \in 1..(k - 1) : s[m] # c) - 1
    ELSE -1

Contains(s, c) == \E k \in 1..Len(s) : s[k] = c
HasPrefix(s, pre) == Len(s) >= Len(pre) /\ SubSeq(s, 1, Len(pre)) = pre
HasSuffix(s, suf) == Len(s) >= Len(suf) /\ SubSeq(s, Len(s) - Len(suf) + 1, Len(s)) = suf

\* strings.Split(s, c) for a one-character c: Count(s, c) + 1 pieces, empty ones kept.
RECURSIVE Split(_, _)
Split(s, c) ==
    LET k == IndexOf(s, c)
    IN  IF k = -1 THEN <<s>>
        ELSE <<Slice(s, 0, k)>> \o Split(Slice(s, k + 1, Len(s)), c)

\* strings.Join(parts, c).
RECURSIVE Join(_, _)
Join(parts, c) ==
    IF Len(parts) = 0 THEN <<>>
    ELSE IF Len(parts) = 1 THEN parts[1]
    ELSE parts[1] \o <<c>> \o Join(Tail(parts), c)

(***************************************************************************)
(* package wildpath                                                        *)
(***************************************************************************)

\* The for loop of matchCharacterRange: "true" when a member or range holds char.
RECURSIVE rangeScan(_, _, _)
rangeScan(rangePattern, char, i) ==
    IF i >= Len(rangePattern) THEN "false"
    ELSE IF i + 2 < Len(rangePattern) /\ At(rangePattern, i + 1) = "-"
    THEN IF ~InRange(rangePattern, i + 2) THEN "panic"
         ELSE IF Code(char) >= Code(At(rangePattern, i))
                 /\ Code(char) <= Code(At(rangePattern, i + 2))
         THEN "true"
         ELSE rangeScan(rangePattern, char, i + 3)
    ELSE IF At(rangePattern, i) = char THEN "true"
    ELSE rangeScan(rangePattern, char, i + 1)

matchCharacterRange(rangePattern, char) ==
    IF Len(rangePattern) = 0 THEN "false"
    ELSE LET isNegated == At(rangePattern, 0) = "!" \/ At(rangePattern, 0) = "^"
             startIdx == IF isNegated THEN 1 ELSE 0
             matched == rangeScan(rangePattern, char, startIdx)
         IN  IF matched = "panic" THEN "panic"
             ELSE Out((matched = "true") # isNegated)

\* findClosingBracket: the first "]" at position >= 1, or -1.
findClosingBracket(pattern) ==
    IF \E k \in 1..(Len(pattern) - 1) : At(pattern, k) = "]"
    THEN CHOOSE k \in 1..(Len(pattern) - 1) :
            At(pattern, k) = "]" /\ \A m \in 1..(k - 1) : At(pattern, m) # "]"
    ELSE -1

\* The iterations the main loop of matchSinglePart may take: starMatch never
\* decreases and is at most len(s), and between two backtracks i only grows.
LoopBudget(p, s) == (Len(p) + 1) * (Len(s) + 1)

\* The trailing loop of matchSinglePart: skip the "*" from i on.
RECURSIVE skipStars(_, _)
skipStars(p, i) ==
    IF i < Len(p) /\ At(p, i) = "*" THEN skipStars(p, i + 1) ELSE i

\* Mutant of backtrack: the star's match boundary is not advanced.
backtrackNoAdvance(starIdx, starMatch) == <<starIdx + 1, starMatch, starMatch>>

\* Where the backtracking branches of matchSinglePart resume: <<i, j, starMatch>>.
backtrack(starIdx, starMatch) == <<starIdx + 1, starMatch + 1, starMatch + 1>>

\* The main loop of matchSinglePart, at its n-th iteration.
RECURSIVE partLoop(_, _, _, _, _, _, _)
partLoop(p, s, i, j, starIdx, starMatch, n) ==
    IF j < Len(s)
    THEN IF n >= LoopBudget(p, s) THEN "diverge"
         ELSE IF i < Len(p) /\ At(p, i) = "*"
         THEN partLoop(p, s, i + 1, j, i, j, n + 1)
         ELSE IF i < Len(p) /\ (At(p, i) = "?" \/ At(p, i) = At(s, j))
         THEN partLoop(p, s, i + 1, j + 1, starIdx, starMatch, n + 1)
         ELSE IF i < Len(p) /\ At(p, i) = "["
         THEN LET closeIdx == findClosingBracket(Slice(p, i, Len(p)))
              IN  IF closeIdx = -1 THEN "false"
                  ELSE IF ~SliceOK(p, i + 1, i + closeIdx) THEN "panic"
                  ELSE LET m == matchCharacterRange(Slice(p, i + 1, i + closeIdx), At(s, j))
                           b == backtrack(starIdx, starMatch)
                       IN  IF m = "panic" THEN "panic"
                           ELSE IF m = "true"
                           THEN partLoop(p, s, i + closeIdx + 1, j + 1, starIdx, starMatch, n + 1)
                           ELSE IF starIdx = -1 THEN "false"
                           ELSE partLoop(p, s, b[1], b[2], starIdx, b[3], n + 1)
         ELSE LET b == backtrack(starIdx, starMatch)
              IN  IF starIdx = -1 THEN "false"
                  ELSE partLoop(p, s, b[1], b[2], starIdx, b[3], n + 1)
    ELSE Out(skipStars(p, i) = Len(p))

matchSinglePart(pattern, str) ==
    IF pattern = <<"*">> \/ pattern = str THEN "true"
    ELSE partLoop(pattern, str, 0, 0, -1, 0, 0)

\* normalize: the non-empty components of s, and whether s starts with "/".
RECURSIVE nonEmptyParts(_)
nonEmptyParts(parts) ==
    IF Len(parts) = 0 THEN <<>>
    ELSE IF Head(parts) # <<>> THEN <<Head(parts)>> \o nonEmptyParts(Tail(parts))
    ELSE nonEmptyParts(Tail(parts))

\* Mutant of normalize: the leading "/" is not recorded.
normalizeNoRoot(s) == [parts |-> nonEmptyParts(Split(s, "/")), hasRoot |-> FALSE]

normalize(s) == [parts |-> nonEmptyParts(Split(s, "/")), hasRoot |-> HasPrefix(s, <<"/">>)]

\* Mutant of skipGlobstars: trailing "**" components are not skipped.
skipNoGlobstars(pattern, patternIdx) == patternIdx

\* The loop of matchParts that skips the trailing "**" components.
RECURSIVE skipGlobstars(_, _)
skipGlobstars(pattern, patternIdx) ==
    IF patternIdx < Len(pattern) /\ At(pattern, patternIdx) = <<"*", "*">>
    THEN skipGlobstars(pattern, patternIdx + 1)
    ELSE patternIdx

RECURSIVE matchParts(_, _, _, _)
\* Mutant of tryPositions: a "**" takes at least one path component.
RECURSIVE tryPositionsSkipFirst(_, _, _, _)
tryPositionsSkipFirst(pattern, filename, nextPattern, i) ==
    IF i + 1 <= Len(filename)
    THEN LET r == matchParts(pattern, filename, nextPattern, i + 1)
         IN  IF r = "false" THEN tryPositionsSkipFirst(pattern, filename, nextPattern, i + 1)
             ELSE r
    ELSE "false"

\* The for loop of the globstar branch: the rest of the pattern at position i, i+1, ...
RECURSIVE tryPositions(_, _, _, _)
tryPositions(pattern, filename, nextPattern, i) ==
    IF i <= Len(filename)
    THEN LET r == matchParts(pattern, filename, nextPattern, i)
         IN  IF r = "false" THEN tryPositions(pattern, filename, nextPattern, i + 1) ELSE r
    ELSE "false"

\* Mutant of matchParts: "**" is matched like any other component, against exactly
\* one path component.
RECURSIVE matchPartsNoGlobstar(_, _, _, _)
matchPartsNoGlobstar(pattern, filename, patternIdx, filenameIdx) ==
    IF patternIdx < Len(pattern)
    THEN IF filenameIdx = Len(filename)
         THEN Out(skipGlobstars(pattern, patternIdx) = Len(pattern))
         ELSE LET r == matchSinglePart(At(pattern, patternIdx), At(filename, filenameIdx))
              IN  IF r = "true"
                  THEN matchPartsNoGlobstar(pattern, filename, patternIdx + 1, filenameIdx + 1)
                  ELSE r
    ELSE Out(filenameIdx = Len(filename))

matchParts(pattern, filename, patternIdx, filenameIdx) ==
    IF patternIdx < Len(pattern)
    THEN IF filenameIdx = Len(filename)
         THEN Out(skipGlobstars(pattern, patternIdx) = Len(pattern))
         ELSE IF At(pattern, patternIdx) = <<"*", "*">>
         THEN IF patternIdx + 1 = Len(pattern) THEN "true"
              ELSE tryPositions(pattern, filename, patternIdx + 1, filenameIdx)
         ELSE IF filenameIdx < Len(filename)
         THEN LET r == matchSinglePart(At(pattern, patternIdx), At(filename, filenameIdx))
              IN  IF r = "true"
                  THEN matchParts(pattern, filename, patternIdx + 1, filenameIdx + 1)
                  ELSE r
         ELSE "false"
    ELSE Out(filenameIdx = Len(filename))

\* Mutant of matchSinglePattern: the root anchors are not compared.
matchSinglePatternUnanchored(pattern, filename) ==
    matchParts(normalize(pattern).parts, normalize(filename).parts, 0, 0)

matchSinglePattern(pattern, filename) ==
    LET p == normalize(pattern)
        f == normalize(filename)
    IN  IF p.hasRoot # f.hasRoot THEN "false"
        ELSE matchParts(p.parts, f.parts, 0, 0)

\* strings.Index(pattern[start:], "}") + start, or -1.
closingBrace(pattern, start) ==
    LET end == IndexOf(Slice(pattern, start, Len(pattern)), "}")
    IN  IF end = -1 THEN -1 ELSE end + start

\* Mutant of crossProduct: the suffix expansions are the outer order.
RECURSIVE crossProductSuffixOuter(_, _, _)
crossProductSuffixOuter(prefix, alternatives, suffixExpanded) ==
    IF Len(suffixExpanded) = 0 THEN <<>>
    ELSE [k \in 1..Len(alternatives) |-> prefix \o alternatives[k] \o Head(suffixExpanded)]
         \o crossProductSuffixOuter(prefix, alternatives, Tail(suffixExpanded))

\* prefix + alt + suffixPattern for every alt, and for every suffixPattern inside it.
RECURSIVE crossProduct(_, _, _)
crossProduct(prefix, alternatives, suffixExpanded) ==
    IF Len(alternatives) = 0 THEN <<>>
    ELSE [k \in 1..Len(suffixExpanded) |-> prefix \o Head(alternatives) \o suffixExpanded[k]]
         \o crossProduct(prefix, Tail(alternatives), suffixExpanded)

RECURSIVE expandBraces(_)
expandBraces(pattern) ==
    LET start == IndexOf(pattern, "{")
        end == closingBrace(pattern, start)
        content == Slice(pattern, start + 1, end)
    IN  IF start = -1 THEN <<pattern>>
        ELSE IF end = -1 THEN <<pattern>>
        ELSE IF content = <<>> \/ ~Contains(content, ",") THEN <<pattern>>
        ELSE crossProduct(Slice(pattern, 0, start), Split(content, ","),
                          expandBraces(Slice(pattern, end + 1, Len(pattern))))

\* Whether expandBraces(pattern) runs without a slice out of range and recurses
\* only on a strictly shorter suffix.
RECURSIVE expandBracesReturns(_)
expandBracesReturns(pattern) ==
    LET start == IndexOf(pattern, "{")
        end == closingBrace(pattern, start)
        content == Slice(pattern, start + 1, end)
        suffix == Slice(pattern, end + 1, Len(pattern))
    IN  IF start = -1 THEN TRUE
        ELSE IF ~SliceOK(pattern, start, Len(pattern)) THEN FALSE
        ELSE IF end = -1 THEN TRUE
        ELSE IF ~SliceOK(pattern, start + 1, end) THEN FALSE
        ELSE IF content = <<>> \/ ~Contains(content, ",") THEN TRUE
        ELSE SliceOK(pattern, 0, start) /\ SliceOK(pattern, end + 1, Len(pattern))
             /\ Len(suffix) < Len(pattern) /\ expandBracesReturns(suffix)

\* The loop of Match over the expansions: "true" at the first one that matches.
RECURSIVE anyMatch(_, _, _)
anyMatch(expansions, filename, k) ==
    IF k > Len(expansions) THEN "false"
    ELSE LET r == matchSinglePattern(expansions[k], filename)
         IN  IF r = "false" THEN anyMatch(expansions, filename, k + 1) ELSE r

\* Match, with the ways a Go call can fail to return a bool kept apart.
MatchOutcome(pattern, filename) ==
    IF Contains(pattern, "{")
    THEN IF ~expandBracesReturns(pattern) THEN "panic"
         ELSE anyMatch(expandBraces(pattern), filename, 1)
    ELSE matchSinglePattern(pattern, filename)

\* wildpath.Match as its callers see it.
Match(pattern, filename) == MatchOutcome(pattern, filename) = "true"

(***************************************************************************)
(* path/filepath, as built for a platform whose separator is "/".          *)
(***************************************************************************)
Separator == "/"

ToSlash(path) ==
    IF Separator = "/" THEN path
    ELSE [k \in 1..Len(path) |-> IF path[k] = Separator THEN "/" ELSE path[k]]

\* The elements Clean keeps: "" and "." dropped, ".." cancelling the element
\* before it, dropped at the root, kept at the start of a relative path.
RECURSIVE cleanParts(_, _, _)
cleanParts(parts, rooted, out) ==
    IF Len(parts) = 0 THEN out
    ELSE LET e == Head(parts)
             rest == Tail(parts)
         IN  IF e = <<>> \/ e = <<".">> THEN cleanParts(rest, rooted, out)
             ELSE IF e = <<".", ".">>
             THEN IF Len(out) > 0 /\ out[Len(out)] # <<".", ".">>
                  THEN cleanParts(rest, rooted, SubSeq(out, 1, Len(out) - 1))
                  ELSE IF rooted THEN cleanParts(rest, rooted, out)
                  ELSE cleanParts(rest, rooted, Append(out, e))
             ELSE cleanParts(rest, rooted, Append(out, e))

Clean(path) ==
    IF path = <<>> THEN <<".">>
    ELSE LET rooted == path[1] = "/"
             joined == Join(cleanParts(Split(path, "/"), rooted, <<>>), "/")
         IN  IF rooted THEN <<"/">> \o joined
             ELSE IF joined = <<>> THEN <<".">>
             ELSE joined

\* The number of leading elements two element lists share.
RECURSIVE commonPrefix(_, _)
commonPrefix(b, t) ==
    IF Len(b) > 0 /\ Len(t) > 0 /\ Head(b) = Head(t)
    THEN 1 + commonPrefix(Tail(b), Tail(t))
    ELSE 0

\* filepath.Rel(basepath, targpath): [err, path].
Rel(basepath, targpath) ==
    LET cleanBase == Clean(basepath)
        targ == Clean(targpath)
        base == IF cleanBase = <<".">> THEN <<>> ELSE cleanBase
        baseSlashed == Len(base) > 0 /\ base[1] = "/"
        targSlashed == Len(targ) > 0 /\ targ[1] = "/"
        b == nonEmptyParts(Split(base, "/"))
        t == nonEmptyParts(Split(targ, "/"))
        c == commonPrefix(b, t)
        up == [k \in 1..(Len(b) - c) |-> <<".", ".">>]
    IN  IF targ = cleanBase THEN [err |-> FALSE, path |-> <<".">>]
        ELSE IF baseSlashed # targSlashed THEN [err |-> TRUE, path |-> <<>>]
        ELSE IF c < Len(b) /\ b[c + 1] = <<".", ".">> THEN [err |-> TRUE, path |-> <<>>]
        ELSE [err |-> FALSE, path |-> Join(up \o SubSeq(t, c + 1, Len(t)), "/")]

(***************************************************************************)
(* package gitignore                                                       *)
(***************************************************************************)

\* New(basePath): the stack's fields.
New(base) == [patterns |-> <<>>, basePath |-> ToSlash(base)]

\* PushPatterns: the stack with the normalized group appended.
pushed(stack, group) == Append(stack, [k \in 1..Len(group) |-> ToSlash(group[k])])

\* Mutant of popped: the first group is removed instead of the last.
poppedFirst(stack) == IF Len(stack) > 0 THEN Tail(stack) ELSE stack

\* PopPatterns: the stack without its last group; an empty stack as it is.
popped(stack) == IF Len(stack) > 0 THEN SubSeq(stack, 1, Len(stack) - 1) ELSE stack

\* The path ShouldIgnore matches against: [err, relPath].
relativePath(base, path) ==
    LET r == Rel(base, ToSlash(path))
    IN  [err |-> r.err, relPath |-> ToSlash(r.path)]

\* Mutant of escapesBase: only a "../" prefix counts as outside.
escapesBaseSlash(relPath) == HasPrefix(relPath, <<".", ".", "/">>)

\* The outside-the-base test of ShouldIgnore.
escapesBase(relPath) == HasPrefix(relPath, <<".", ".">>)

\* Mutant of matchDirPattern: the directory itself matches too.
matchDirPatternItself(dirPattern, relPath) ==
    \/ Match(<<"*", "*", "/">> \o dirPattern \o <<"/", "*", "*">>, relPath)
    \/ Match(dirPattern \o <<"/", "*", "*">>, relPath)

\* A directory pattern (trailing "/" removed) against relPath.
matchDirPattern(dirPattern, relPath) ==
    \/ Match(<<"*", "*", "/">> \o dirPattern \o <<"/", "*", "*", "/", "*">>, relPath)
    \/ Match(dirPattern \o <<"/", "*", "*", "/", "*">>, relPath)

\* Mutant of matchFilePattern: a slash-free pattern is not tried under "**/".
matchFilePatternExact(pattern, relPath) == Match(pattern, relPath)

\* A pattern that is no directory pattern against relPath.
matchFilePattern(pattern, relPath) ==
    IF ~Contains(pattern, "/")
    THEN Match(<<"*", "*", "/">> \o pattern, relPath) \/ Match(pattern, relPath)
    ELSE Match(pattern, relPath)

\* One non-empty pattern of a group against relPath: [matched, isNegated].
testPattern(rawPattern, relPath) ==
    LET isNegated == HasPrefix(rawPattern, <<"!">>)
        p1 == IF isNegated THEN Slice(rawPattern, 1, Len(rawPattern)) ELSE rawPattern
        pattern == IF HasPrefix(p1, <<"/">>) THEN Slice(p1, 1, Len(p1)) ELSE p1
    IN  [matched |-> IF HasSuffix(pattern, <<"/">>)
                     THEN matchDirPattern(Slice(pattern, 0, Len(pattern) - 1), relPath)
                     ELSE matchFilePattern(pattern, relPath),
         isNegated |-> isNegated]

\* Mutant of recordMatch: the first matching pattern of a level keeps the verdict.
recordFirstMatch(verdict, isNegated) ==
    IF verdict.foundMatch THEN verdict
    ELSE [foundMatch |-> TRUE, levelResult |-> ~isNegated]

\* What a matching pattern does to the level's verdict: [foundMatch, levelResult].
recordMatch(verdict, isNegated) == [foundMatch |-> TRUE, levelResult |-> ~isNegated]

\* The inner loop of ShouldIgnore from pattern j on: [foundMatch, levelResult].
RECURSIVE scanGroup(_, _, _, _)
scanGroup(levelPatterns, relPath, j, verdict) ==
    IF j >= Len(levelPatterns) THEN verdict
    ELSE IF At(levelPatterns, j) = <<>> THEN scanGroup(levelPatterns, relPath, j + 1, verdict)
    ELSE LET r == testPattern(At(levelPatterns, j), relPath)
         IN  scanGroup(levelPatterns, relPath, j + 1,
                       IF r.matched THEN recordMatch(verdict, r.isNegated) ELSE verdict)

\* Mutant of levelDecides: every level ends the scan, matched or not.
levelDecidesAlways(verdict) == TRUE

\* Whether a level's verdict ends the scan.
levelDecides(verdict) == verdict.foundMatch

\* Mutant of levelOrder: the levels are visited from the first pushed on.
levelOrderShallowFirst(stack) == [k \in 1..Len(stack) |-> k - 1]

\* The levels in the order the outer loop of ShouldIgnore visits them: last to 0.
levelOrder(stack) == [k \in 1..Len(stack) |-> Len(stack) - k]

\* The outer loop of ShouldIgnore over the levels still to visit.
RECURSIVE scanLevels(_, _, _)
scanLevels(stack, relPath, order) ==
    IF Len(order) = 0 THEN FALSE
    ELSE LET verdict == scanGroup(At(stack, Head(order)), relPath, 0,
                                  [foundMatch |-> FALSE, levelResult |-> FALSE])
         IN  IF levelDecides(verdict) THEN verdict.levelResult
             ELSE scanLevels(stack, relPath, Tail(order))

ShouldIgnoreOn(stack, base, path) ==
    LET r == relativePath(base, path)
    IN  IF r.err THEN FALSE
        ELSE IF escapesBase(r.relPath) THEN FALSE
        ELSE scanLevels(stack, r.relPath, levelOrder(stack))

(***************************************************************************)
(* The matcher run: Match applied to inputs drawn from bounded sets.       *)
(***************************************************************************)
MaxPatLen == 3
MaxPathLen == 3

PatAlphabet == {"a", "/", "*", "?", "[", "]", "-", "!", "{", "}", ","}
PathAlphabet == {"a", "b", "/"}

\* All strings over alphabet of length at most n.
RECURSIVE StringsUpTo(_, _)
StringsUpTo(alphabet, n) ==
    IF n = 0 THEN {<<>>}
    ELSE LET shorter == StringsUpTo(alphabet, n - 1)
         IN  shorter \cup {Append(s, c) : s \in shorter, c \in alphabet}

\* Longer patterns: bracket ranges, brace groups, globstars, malformed fragments.
LongPatterns ==
    { <<"[", "a", "-", "b", "]">>, <<"[", "!", "a", "-", "b", "]">>, <<"[", "^", "a", "]">>,
      <<"[", "a", "-", "]">>, <<"[", "-", "a", "]">>, <<"[", "a", "-", "b">>,
      <<"*", "[", "a", "-", "b", "]">>, <<"*", "[", "b", "]", "a">>, <<"*", "a", "[", "b">>,
      <<"[", "]", "]">>, <<"[", "!", "]">>, <<"*", "*", "/", "a">>, <<"a", "/", "*", "*">>,
      <<"*", "*", "/", "*", "*">>, <<"/", "*", "*">>, <<"*", "*", "/">>, <<"*", "*", "*">>,
      <<"{", "a", ",", "b", "}">>, <<"{", ",", "}">>, <<"{", "a", "}">>, <<"{", "a", ",", "b">>,
      <<"{", "*", "*", ",", "a", "}">>, <<"a", "{", ",", "b", "}", "{", "a">>,
      <<"{", "a", ",", "{", "b", ",", "a", "}", "}">>, <<"*", "a", "*", "b">>,
      <<"?", "*", "?">>, <<"a", "/", "/", "b">>, <<"a", "/", "*", "*", "/", "b">>,
      <<"/", "*", "*", "/", "a">>, <<"*", "*", "/", "a", "/", "*", "*">>,
      <<"*", "*", "/", "*", "*", "/", "b">>, <<"{", "/", "a", ",", "b", "}">>,
      <<"{", "a", ",", "b", "}", "{", ",", "a", "}">>,
      <<"{", "a", "}", "{", "a", ",", "b", "}">>, <<"{", "{", "a", ",", "b", "}", "}">> }
LongPaths ==
    { <<"a", "/", "b">>, <<"a", "b", "a">>, <<"/", "a", "/">>, <<"a", "a", "b", "b">>,
      <<"b", "/", "a", "/", "b">>, <<"/", "/", "/">>, <<"a", "/", "a", "/", "b">>,
      <<"/", "b", "/", "a">>, <<"a", "[">>, <<"[", "a", "]">>, <<"b", "[", "a", "]">>,
      <<"{", "a", "}">>, <<"{", "a", "}", "b">> }

PatternInputs == StringsUpTo(PatAlphabet, MaxPatLen) \cup LongPatterns
PathInputs == StringsUpTo(PathAlphabet, MaxPathLen) \cup LongPaths

(***************************************************************************)
(* The initial values of the parts of the state a specification leaves     *)
(* alone.                                                                  *)
(***************************************************************************)
StackIdle ==
    /\ patterns = <<>>
    /\ basePath = <<"/", "p">>
    /\ op = "new"
    /\ qPath = <<>>
    /\ qResult = FALSE
    /\ ref = <<>>

MatchIdle ==
    /\ mPattern = <<>>
    /\ mPath = <<>>
    /\ mpc = "idle"
    /\ mOutcome = "none"

WalkIdle ==
    /\ wDir = <<>>
    /\ wTree = [ignoreFile |-> [state |-> "missing", lines |-> <<>>], entries |-> <<>>]
    /\ wExclude = <<>>
    /\ wRespect = FALSE
    /\ wFrames = <<>>
    /\ wFiles = <<>>
    /\ wExcluded = <<>>
    /\ wpc = "idle"
    /\ wReturned = [path |-> <<>>, exit |-> "none", startDepth |-> 0, endDepth |-> 0]

ZipIdle ==
    /\ zArchive = <<>>
    /\ zExclude = <<>>
    /\ zRespect = FALSE
    /\ gitignorePatterns = {}
    /\ zIdx = 0
    /\ zFiles = <<>>
    /\ zExcluded = <<>>
    /\ zpc = "idle"

\* A ComparisonResult with its four lists nil.
NoResult ==
    [IdenticalFiles |-> <<>>, DifferentFiles |-> <<>>,
     SourceOnlyFiles |-> <<>>, TargetOnlyFiles |-> <<>>]

CompareIdle ==
    /\ cMode = "dir"
    /\ cSame = {}
    /\ sourceDir = <<".">>
    /\ targetDir = <<".">>
    /\ sourceFiles = <<>>
    /\ targetFiles = <<>>
    /\ sourceMap = {}
    /\ targetMap = {}
    /\ cSeen = [source |-> {}, target |-> {}]
    /\ result = NoResult
    /\ cpc = "idle"

\* The zero value of the target fields of Config, and of the flags left out.
NoTargets == [TargetURL |-> <<>>, TargetPath |-> <<>>, TargetZip |-> <<>>]

MainIdle ==
    /\ flags = [config |-> <<>>, targets |-> NoTargets]
    /\ configFile = [state |-> "notFound", targets |-> NoTargets, versionOk |-> FALSE]
    /\ env = [targetExists |-> FALSE, cloneOk |-> FALSE, reportOk |-> FALSE]
    /\ config = NoTargets
    /\ rpc = "idle"
    /\ rExit = "none"
    /\ rEffects = {}

ToolIdle == ZipIdle /\ CompareIdle /\ MainIdle

InitMatch ==
    /\ StackIdle
    /\ WalkIdle
    /\ ToolIdle
    /\ mPattern \in PatternInputs
    /\ mPath \in PathInputs
    /\ mpc = "ready"
    /\ mOutcome = "none"

\* One call Match(mPattern, mPath).
CallMatch ==
    /\ mpc = "ready"
    /\ mpc' = "done"
    /\ mOutcome' = MatchOutcome(mPattern, mPath)
    /\ UNCHANGED <<mPattern, mPath>>
    /\ UNCHANGED stackVars
    /\ UNCHANGED walkVars
    /\ UNCHANGED toolVars

NextMatch == CallMatch

SpecMatch == InitMatch /\ [][NextMatch]_vars

(***************************************************************************)
(* The ignore stack: one Stack, its groups pushed and popped and paths     *)
(* queried in any order.                                                   *)
(***************************************************************************)
MaxDepth == 2

BasePool == { <<"/", "p">>, <<"q">> }

\* Groups as a walker reads them from ignore files.
GroupPool ==
    { << <<"*", ".", "t">> >>,                              \* *.t
      << <<"!", "a", ".", "t">> >>,                         \* !a.t
      << <<"d", "/">> >>,                                   \* d/
      << <<"*">>, <<"!", "a", ".", "t">> >>,                \* *, !a.t
      << <<"!", "a", ".", "t">>, <<"*">> >>,                \* !a.t, *
      << <<>>, <<"b">> >>,                                  \* "", b
      << <<"d", "/", "*", ".", "t">> >>,                    \* d/*.t
      << <<"b">>, <<"!", "d", "/">> >>,                     \* b, !d/
      << <<"*">> >>,                                        \* *
      << <<"/", "d", "/", "b">>, <<"/", "a", ".", "t">> >>, \* /d/b, /a.t
      << <<"d", "\\", "*", ".", "t">> >> }                  \* d\*.t

PathPool ==
    { <<"/", "p", "/", "a", ".", "t">>,                     \* /p/a.t
      <<"/", "p", "/", "b", ".", "t">>,                     \* /p/b.t
      <<"/", "p", "/", "b">>,                               \* /p/b
      <<"/", "p", "/", "d">>,                               \* /p/d
      <<"/", "p", "/", "d", "/", "a", ".", "t">>,           \* /p/d/a.t
      <<"/", "p", "/", "d", "/", "d">>,                     \* /p/d/d
      <<"/", "p", "/", "b", "/", "d">>,                     \* /p/b/d
      <<"/", "p", "/", "b", "/", "d", "/", "b", "/", "a", ".", "t">>,  \* /p/b/d/b/a.t
      <<"/", "p", "/", ".", ".", "/", "a", ".", "t">>,      \* /p/../a.t
      <<"/", "p", "/", ".", ".">>,                          \* /p/..
      <<"/", "o", "/", "a", ".", "t">>,                     \* /o/a.t
      <<"/", "p">>,                                         \* /p
      <<"q", "/", "a", ".", "t">>,                          \* q/a.t
      <<"q", "/", "d", "/", "b">>,                          \* q/d/b
      <<"a", ".", "t">>,                                    \* a.t
      <<"/", "p", "/", "d", "\\", "a", ".", "t">> }         \* /p/d\a.t

\* The reference LIFO as a sequence, first pushed first.
RECURSIVE refGroups(_)
refGroups(r) == IF r = <<>> THEN <<>> ELSE Append(refGroups(r[2]), r[1])

Init ==
    /\ MatchIdle
    /\ WalkIdle
    /\ ToolIdle
    /\ \E base \in BasePool :
          /\ patterns = New(base).patterns
          /\ basePath = New(base).basePath
    /\ op = "new"
    /\ qPath = <<>>
    /\ qResult = FALSE
    /\ ref = <<>>

PushPatterns(group) ==
    /\ Len(patterns) < MaxDepth
    /\ patterns' = pushed(patterns, group)
    /\ op' = "push"
    /\ ref' = <<[k \in 1..Len(group) |-> ToSlash(group[k])], ref>>
    /\ qPath' = <<>>
    /\ qResult' = FALSE
    /\ UNCHANGED basePath
    /\ UNCHANGED matchVars
    /\ UNCHANGED walkVars
    /\ UNCHANGED toolVars

PopPatterns ==
    /\ patterns' = popped(patterns)
    /\ op' = IF Len(patterns) = 0 THEN "popEmpty" ELSE "pop"
    /\ ref' = IF ref = <<>> THEN <<>> ELSE ref[2]
    /\ qPath' = <<>>
    /\ qResult' = FALSE
    /\ UNCHANGED basePath
    /\ UNCHANGED matchVars
    /\ UNCHANGED walkVars
    /\ UNCHANGED toolVars

\* Mutant of afterQuery: the query drops the last group.
afterQueryDropsLast(stack, base) == [patterns |-> popped(stack), basePath |-> base]

\* What a ShouldIgnore call leaves of the stack's fields.
afterQuery(stack, base) == [patterns |-> stack, basePath |-> base]

ShouldIgnore(path) ==
    /\ qPath' = path
    /\ qResult' = ShouldIgnoreOn(patterns, basePath, path)
    /\ patterns' = afterQuery(patterns, basePath).patterns
    /\ basePath' = afterQuery(patterns, basePath).basePath
    /\ op' = "query"
    /\ UNCHANGED ref
    /\ UNCHANGED matchVars
    /\ UNCHANGED walkVars
    /\ UNCHANGED toolVars

Next ==
    \/ \E group \in GroupPool : PushPatterns(group)
    \/ PopPatterns
    \/ \E path \in PathPool : ShouldIgnore(path)

Spec == Init /\ [][Next]_vars

(***************************************************************************)
(* Properties of the ignore stack (specification Spec).                    *)
(***************************************************************************)

\* The base-relative form of the queried path.
QRel == relativePath(basePath, qPath)
QParts == nonEmptyParts(Split(QRel.relPath, "/"))

\* The last call was a query whose path went through the scan of the groups.
Scanned == op = "query" /\ ~QRel.err /\ ~HasPrefix(QRel.relPath, <<".", ".">>)

\* The last call was a query whose path leaves the base: its relative form
\* starts with the component "..".
Escaped == op = "query" /\ ~QRel.err /\ Len(QParts) > 0 /\ QParts[1] = <<".", ".">>

Hits(pattern, relPath) == pattern # <<>> /\ testPattern(pattern, relPath).matched
GroupHits(group, relPath) == \E j \in 1..Len(group) : Hits(group[j], relPath)
LastHit(group, relPath) ==
    CHOOSE j \in 1..Len(group) :
        Hits(group[j], relPath) /\ \A m \in (j + 1)..Len(group) : ~Hits(group[m], relPath)
HitLevels == {i \in 1..Len(patterns) : GroupHits(patterns[i], QRel.relPath)}
Deciding == CHOOSE i \in HitLevels : \A k \in HitLevels : k <= i

\* C2: the most recently pushed group with a matching pattern decides alone: the
\* result is the one the query gives with only that group on the stack.
C2_DeepestDecisionWins ==
    (Scanned /\ HitLevels # {})
        => qResult = ShouldIgnoreOn(<<patterns[Deciding]>>, basePath, qPath)

\* A negating deeper group overrides a shallower group that would ignore the path.
C2_Witness ==
    /\ Scanned
    /\ Cardinality(HitLevels) = 2
    /\ HasPrefix(patterns[2][LastHit(patterns[2], QRel.relPath)], <<"!">>)
    /\ ~HasPrefix(patterns[1][LastHit(patterns[1], QRel.relPath)], <<"!">>)
    /\ qResult = FALSE

\* C3: the deciding group's verdict is that of its last matching pattern: ignored
\* unless that pattern starts with "!".
C3_LastMatchInGroupWins ==
    (Scanned /\ HitLevels # {})
        => LET group == patterns[Deciding]
           IN  qResult = ~HasPrefix(group[LastHit(group, QRel.relPath)], <<"!">>)

\* Two patterns of the deciding group match, the first negated and the last not.
C3_Witness ==
    /\ Scanned
    /\ HitLevels # {}
    /\ LET group == patterns[Deciding]
       IN  \E j \in 1..Len(group) :
              /\ Hits(group[j], QRel.relPath)
              /\ HasPrefix(group[j], <<"!">>)
              /\ j < LastHit(group, QRel.relPath)
    /\ qResult = TRUE

\* C4: without any matching pattern on the stack the path is not ignored, and a
\* last group without a matching pattern leaves the result to the groups under it.
C4_NoMatchNoVerdict ==
    Scanned =>
        /\ HitLevels = {} => qResult = FALSE
        /\ (Len(patterns) > 0 /\ Len(patterns) \notin HitLevels)
              => qResult = ShouldIgnoreOn(SubSeq(patterns, 1, Len(patterns) - 1),
                                          basePath, qPath)

\* The last group matches nothing and the group under it ignores the path.
C4_Witness ==
    /\ Scanned
    /\ Len(patterns) = 2
    /\ HitLevels = {1}
    /\ qResult = TRUE

\* A directory-only pattern "name/" whose name has no pattern syntax.
DirOnlyLiteral(pattern) ==
    /\ Len(pattern) >= 2
    /\ pattern[Len(pattern)] = "/"
    /\ \A k \in 1..(Len(pattern) - 1) :
          pattern[k] \notin {"/", "*", "?", "[", "]", "{", "}", ",", "!", "\\"}

\* C5: with only a directory-only pattern d/ on the stack a path inside the base is
\* ignored iff some component d of it is followed by a further component.
C5_DirectoryPatternIgnoresDescendantsOnly ==
    (Scanned /\ Len(patterns) = 1 /\ Len(patterns[1]) = 1 /\ DirOnlyLiteral(patterns[1][1]))
        => LET d == SubSeq(patterns[1][1], 1, Len(patterns[1][1]) - 1)
           IN  qResult = (\E k \in 1..(Len(QParts) - 1) : QParts[k] = d)

\* The directory itself is queried, below another directory, and is not ignored.
C5_Witness ==
    /\ Scanned
    /\ patterns = << << <<"d", "/">> >> >>
    /\ QParts = << <<"b">>, <<"d">> >>
    /\ qResult = FALSE

\* C6: a path whose base-relative form starts with the component ".." is never
\* ignored.
C6_EscapingPathNeverIgnored == Escaped => qResult = FALSE

\* An escaping path is queried while the last group has a pattern that matches
\* its relative form.
C6_Witness ==
    /\ Escaped
    /\ Len(patterns) > 0
    /\ GroupHits(patterns[Len(patterns)], QRel.relPath)
    /\ ~HasPrefix(patterns[Len(patterns)][LastHit(patterns[Len(patterns)], QRel.relPath)], <<"!">>)
    /\ qResult = FALSE

\* C7: the stored groups are those of the reference LIFO, after every sequence of
\* pushes and pops; a pop of the empty stack leaves it empty.
C7_StackIsLifo ==
    /\ patterns = refGroups(ref)
    /\ op = "popEmpty" => patterns = <<>>

\* A pop of the empty stack has happened.
C7_Witness == op = "popEmpty" /\ patterns = <<>>

\* C8: a query changes neither the groups nor the base path and repeating it gives
\* the same answer; no call changes the base path or a group that stays on the stack.
C8_OnlyPushAndPopMutate ==
    [][ /\ op' = "query" => patterns' = patterns
        /\ basePath' = basePath
        /\ \A i \in 1..Len(patterns) : i <= Len(patterns') => patterns'[i] = patterns[i]
        /\ (op = "query" /\ op' = "query" /\ qPath' = qPath) => qResult' = qResult
      ]_vars

\* A query has been answered on a stack of two groups.
C8_Witness == op = "query" /\ Len(patterns) = 2 /\ qResult = TRUE

(***************************************************************************)
(* Properties of the matcher (specification SpecMatch).                    *)
(***************************************************************************)

\* C1: every call of Match returns a boolean: no index or slice out of range, no
\* loop past its budget, whatever the pattern and the path.
C1_MatchIsTotal == mpc = "done" => mOutcome \in {"true", "false"}

\* Match has returned on a pattern with an unclosed bracket behind a star.
C1_Witness ==
    /\ mpc = "done"
    /\ mPattern = <<"*", "a", "[", "b">>
    /\ mPath = <<"a", "a", "b", "b">>
    /\ mOutcome = "false"

\* C9: the empty pattern matches the empty path and no other.
C9_EmptyPatternMatchesOnlyEmptyPath ==
    (mpc = "done" /\ mPattern = <<>>) => (mOutcome = "true" <=> mPath = <<>>)

\* The empty pattern has been matched against "/" and does not match.
C9_Witness ==
    mpc = "done" /\ mPattern = <<>> /\ mPath = <<"/">> /\ mOutcome = "false"

\* C10 as stated: a non-empty pattern never matches the empty path.
C10_NonEmptyPatternNeverMatchesEmptyPath ==
    (mpc = "done" /\ mPattern # <<>> /\ mPath = <<>>) => mOutcome = "false"

\* A string that is empty or made of "**" components only, without a leading "/".
OnlyGlobstars(e) ==
    /\ Len(e) > 0 => e[1] # "/"
    /\ \A k \in 1..Len(e) : e[k] \in {"*", "/"}
    /\ \A k \in 1..Len(e) :
          (e[k] = "*" /\ (k = 1 \/ e[k - 1] = "/"))
              => /\ k + 1 <= Len(e)
                 /\ e[k + 1] = "*"
                 /\ (k + 2 <= Len(e) => e[k + 2] = "/")

\* C10 amended: a pattern matches the empty path iff one of its brace expansions
\* is empty or made of "**" components only, without a leading "/".
C10_EmptyPathMatchedByGlobstarsOnly ==
    (mpc = "done" /\ mPath = <<>>)
        => (mOutcome = "true"
              <=> \E k \in 1..Len(expandBraces(mPattern)) :
                     OnlyGlobstars(expandBraces(mPattern)[k]))

\* The non-empty pattern "**/**" has matched the empty path.
C10_Witness ==
    /\ mpc = "done"
    /\ mPattern = <<"*", "*", "/", "*", "*">>
    /\ mPath = <<>>
    /\ mOutcome = "true"

\* Whether a string starts with "/".
Anchored(s) == Len(s) > 0 /\ s[1] = "/"

\* C11: when every brace expansion of the pattern differs from the path in starting
\* with "/", Match returns false, whatever the components are.
C11_AnchorMismatchFails ==
    (mpc = "done"
        /\ \A k \in 1..Len(expandBraces(mPattern)) :
              Anchored(expandBraces(mPattern)[k]) # Anchored(mPath))
        => mOutcome = "false"

\* A rooted globstar pattern has been matched against an unrooted path whose
\* components it would match.
C11_Witness ==
    /\ mpc = "done"
    /\ mPattern = <<"/", "*", "*", "/", "a">>
    /\ mPath = <<"b", "/", "a">>
    /\ mOutcome = "false"

\* The components of a string: its maximal runs without "/".
Components(s) ==
    LET starts == {k \in 1..Len(s) : s[k] # "/" /\ (k = 1 \/ s[k - 1] = "/")}
        EndOf(k) == CHOOSE e \in k..Len(s) :
                        /\ \A m \in k..e : s[m] # "/"
                        /\ (e = Len(s) \/ s[e + 1] = "/")
        Nth(n) == CHOOSE k \in starts : Cardinality({m \in starts : m < k}) = n - 1
    IN  [n \in 1..Cardinality(starts) |-> SubSeq(s, Nth(n), EndOf(Nth(n)))]

\* The reference matching of components: "**" takes any number of whole path
\* components, any other pattern component takes exactly one that it glob-matches.
RECURSIVE CutExists(_, _)
CutExists(pats, comps) ==
    IF pats = <<>> THEN comps = <<>>
    ELSE IF Head(pats) = <<"*", "*">>
    THEN \E n \in 0..Len(comps) : CutExists(Tail(pats), SubSeq(comps, n + 1, Len(comps)))
    ELSE /\ comps # <<>>
         /\ matchSinglePart(Head(pats), Head(comps)) = "true"
         /\ CutExists(Tail(pats), Tail(comps))

\* C12: a brace-free pattern matches a path of equal anchoring iff the path's
\* components can be cut along the pattern's components.
C12_ComponentMatchingAgreesWithReference ==
    (mpc = "done" /\ ~Contains(mPattern, "{") /\ Anchored(mPattern) = Anchored(mPath))
        => (mOutcome = "true" <=> CutExists(Components(mPattern), Components(mPath)))

\* A "**" between two components has taken no path component.
C12_Witness ==
    /\ mpc = "done"
    /\ mPattern = <<"a", "/", "*", "*", "/", "b">>
    /\ mPath = <<"a", "/", "b">>
    /\ mOutcome = "true"

\* Membership of a character in the content of a bracket expression: the members are
\* read left to right, "x-y" being the range from x to y, after a leading "!" or "^"
\* that complements the set.
RECURSIVE Listed(_, _)
Listed(body, c) ==
    IF body = <<>> THEN FALSE
    ELSE IF Len(body) >= 3 /\ body[2] = "-"
    THEN \/ (Code(body[1]) <= Code(c) /\ Code(c) <= Code(body[3]))
         \/ Listed(SubSeq(body, 4, Len(body)), c)
    ELSE body[1] = c \/ Listed(Tail(body), c)

InClass(content, c) ==
    IF content = <<>> THEN FALSE
    ELSE IF content[1] \in {"!", "^"} THEN ~Listed(Tail(content), c)
    ELSE Listed(content, c)

\* The positions of the "]" characters after the first character of p.
Closers(p) == {k \in 2..Len(p) : p[k] = "]"}

\* The reference glob language of one component: "*" takes any run, "?" one
\* character, a terminated "[...]" one character of its class, and every other
\* character (an unterminated "[" included) only itself.
RECURSIVE RefGlob(_, _)
RefGlob(p, s) ==
    IF p = <<>> THEN s = <<>>
    ELSE IF Head(p) = "*"
    THEN RefGlob(Tail(p), s) \/ (s # <<>> /\ RefGlob(p, Tail(s)))
    ELSE IF s = <<>> THEN FALSE
    ELSE IF Head(p) = "?" THEN RefGlob(Tail(p), Tail(s))
    ELSE IF Head(p) = "[" /\ Closers(p) # {}
    THEN LET k == CHOOSE c \in Closers(p) : \A d \in Closers(p) : c <= d
         IN  /\ InClass(SubSeq(p, 2, k - 1), Head(s))
             /\ RefGlob(SubSeq(p, k + 1, Len(p)), Tail(s))
    ELSE Head(p) = Head(s) /\ RefGlob(Tail(p), Tail(s))

\* A Match call of one brace-free pattern component against one path component.
SingleComponentCall ==
    /\ mpc = "done"
    /\ mPattern # <<>> /\ ~Contains(mPattern, "/") /\ ~Contains(mPattern, "{")
    /\ mPath # <<>> /\ ~Contains(mPath, "/")

\* C13: a single pattern component matches a single path component iff the
\* reference glob language matches the whole component.
C13_GlobAgreesWithReference ==
    SingleComponentCall => (mOutcome = "true" <=> RefGlob(mPattern, mPath))

\* Whether some "[" of p has no later "]".
HasUnclosedBracket(p) ==
    \E k \in 1..Len(p) : p[k] = "[" /\ \A m \in (k + 1)..Len(p) : p[m] # "]"

\* C14: a component with an unclosed "[" matches a string iff the glob in which
\* that "[" is an ordinary character matches it.
C14_UnclosedBracketIsLiteral ==
    (SingleComponentCall /\ HasUnclosedBracket(mPattern))
        => (mOutcome = "true" <=> RefGlob(mPattern, mPath))

\* The first "{...}" span of a pattern: 1-based positions of the first "{" and of
\* the first "}" after it (0 when there is none).
FirstOpen(p) ==
    IF Contains(p, "{") THEN CHOOSE k \in 1..Len(p) : p[k] = "{" /\ \A m \in 1..(k - 1) : p[m] # "{"
    ELSE 0
FirstClose(p) ==
    LET o == FirstOpen(p)
        closers == {k \in (o + 1)..Len(p) : p[k] = "}"}
    IN  IF o = 0 \/ closers = {} THEN 0
        ELSE CHOOSE k \in closers : \A m \in closers : k <= m

\* The comma-separated pieces of a string, empty ones included, in written order.
Pieces(content) ==
    LET commas == {k \in 1..Len(content) : content[k] = ","}
        Cut(n) == IF n = 0 THEN 0
                  ELSE IF n > Cardinality(commas) THEN Len(content) + 1
                  ELSE CHOOSE k \in commas : Cardinality({m \in commas : m < k}) = n - 1
    IN  [n \in 1..(Cardinality(commas) + 1) |-> SubSeq(content, Cut(n - 1) + 1, Cut(n) - 1)]

\* Whether the first span is a group that expands: terminated, with a comma inside.
FirstGroupExpands(p) ==
    FirstClose(p) # 0 /\ Contains(SubSeq(p, FirstOpen(p) + 1, FirstClose(p) - 1), ",")

\* C15: expandBraces returns the pattern alone when its first span does not expand,
\* and otherwise prefix + alternative + expanded suffix with the alternatives as the
\* outer order; Match is true iff some returned expansion matches.
C15_FirstSpanExpansion ==
    LET E == expandBraces(mPattern)
        o == FirstOpen(mPattern)
        c == FirstClose(mPattern)
        alts == Pieces(SubSeq(mPattern, o + 1, c - 1))
        Sfx == expandBraces(SubSeq(mPattern, c + 1, Len(mPattern)))
    IN  /\ IF ~FirstGroupExpands(mPattern) THEN E = <<mPattern>>
           ELSE /\ Len(E) = Len(alts) * Len(Sfx)
                /\ \A a \in 1..Len(alts) : \A b \in 1..Len(Sfx) :
                      E[(a - 1) * Len(Sfx) + b] = SubSeq(mPattern, 1, o - 1) \o alts[a] \o Sfx[b]
        /\ mpc = "done" =>
              (mOutcome = "true"
                  <=> \E k \in 1..Len(E) : matchSinglePattern(E[k], mPath) = "true")

\* A pattern of two groups has been matched through its third expansion of four.
C15_Witness ==
    /\ mpc = "done"
    /\ mPattern = <<"{", "a", ",", "b", "}", "{", ",", "a", "}">>
    /\ expandBraces(mPattern) = << <<"a">>, <<"a", "a">>, <<"b">>, <<"b", "a">> >>
    /\ mPath = <<"b">>
    /\ mOutcome = "true"

\* Nesting depth of braces strictly between positions o and k of p.
Depth(p, o, k) ==
    Cardinality({m \in (o + 1)..(k - 1) : p[m] = "{"})
        - Cardinality({m \in (o + 1)..(k - 1) : p[m] = "}"})

\* The "}" that closes the "{" at position o (0 when there is none), and the commas
\* of that group which lie in no nested group.
MatchingClose(p, o) ==
    LET closers == {k \in (o + 1)..Len(p) : p[k] = "}" /\ Depth(p, o, k) = 0}
    IN  IF closers = {} THEN 0 ELSE CHOOSE k \in closers : \A m \in closers : k <= m
GroupCommas(p, o) ==
    {k \in (o + 1)..(MatchingClose(p, o) - 1) : p[k] = "," /\ Depth(p, o, k) = 0}

\* The reference expansion: one alternative is chosen from every well-formed group,
\* groups nested in an alternative included; a "{" that opens no well-formed group
\* is an ordinary character.
RECURSIVE RefExpand(_)
RefExpand(p) ==
    IF ~Contains(p, "{") THEN {p}
    ELSE LET o == FirstOpen(p)
             c == MatchingClose(p, o)
             commas == GroupCommas(p, o)
             cuts == {o, c} \cup commas
             alts == {SubSeq(p, a + 1, b - 1) : <<a, b>> \in
                        {ab \in cuts \X cuts :
                            ab[1] < ab[2] /\ \A m \in cuts : ~(ab[1] < m /\ m < ab[2])}}
         IN  IF c = 0 \/ commas = {}
             THEN {SubSeq(p, 1, o) \o x : x \in RefExpand(SubSeq(p, o + 1, Len(p)))}
             ELSE UNION {RefExpand(SubSeq(p, 1, o - 1) \o alt \o SubSeq(p, c + 1, Len(p))) :
                            alt \in alts}

\* C16: the expansions of a pattern are exactly the reference expansions, with
\* multiple and nested groups.
C16_MultipleAndNestedGroups ==
    mpc = "done" =>
        {expandBraces(mPattern)[k] : k \in 1..Len(expandBraces(mPattern))}
            = RefExpand(mPattern)

(***************************************************************************)
(* Properties of the ignore stack's pattern forms (specification Spec).     *)
(***************************************************************************)

\* The patterns on the stack, as <<level, index>> positions.
StackPositions == {ij \in (1..Len(patterns)) \X (1..3) : ij[2] <= Len(patterns[ij[1]])}
PatternAt(ij) == patterns[ij[1]][ij[2]]

\* A non-empty raw pattern without "/", "!" prefix or braces.
SlashFree(raw) ==
    raw # <<>> /\ ~Contains(raw, "/") /\ raw[1] # "!" /\ ~Contains(raw, "{")

\* The final component of the base-relative path glob-matches p.
FinalComponentMatches(p) ==
    Len(QParts) > 0 /\ matchSinglePart(p, QParts[Len(QParts)]) = "true"

\* C17: a slash-free pattern matches a path inside the base iff the path's final
\* component glob-matches it, at every depth; when it is the last matching pattern
\* of the deciding group the path is ignored.
C17_SlashFreePatternMatchesAnywhere ==
    Scanned =>
        \A ij \in StackPositions :
            SlashFree(PatternAt(ij)) =>
                /\ Hits(PatternAt(ij), QRel.relPath) <=> FinalComponentMatches(PatternAt(ij))
                /\ (/\ FinalComponentMatches(PatternAt(ij))
                    /\ ij[1] = Deciding
                    /\ ij[2] = LastHit(patterns[ij[1]], QRel.relPath))
                       => qResult = TRUE

\* The slash-free pattern *.t, alone on the stack, has ignored a file two levels
\* below the base.
C17_Witness ==
    /\ op = "query"
    /\ basePath = <<"/", "p">>
    /\ patterns = << << <<"*", ".", "t">> >> >>
    /\ qPath = <<"/", "p", "/", "d", "/", "a", ".", "t">>
    /\ qResult = TRUE

\* A raw pattern with a leading "/" that is no directory pattern and has no braces.
RootPattern(raw) ==
    /\ Len(raw) > 1 /\ raw[1] = "/"
    /\ raw[Len(raw)] # "/" /\ ~Contains(raw, "{")

\* C18: a pattern with a leading "/" matches from the base only: the components of
\* the base-relative path are cut along the components of the pattern, so "/p"
\* matches a single component and never a deeper path.
C18_LeadingSlashMatchesFromRoot ==
    Scanned =>
        \A ij \in StackPositions :
            RootPattern(PatternAt(ij)) =>
                (Hits(PatternAt(ij), QRel.relPath)
                    <=> CutExists(Components(PatternAt(ij)), QParts))

\* Every "\" of a string written as "/".
Slashed(s) == [k \in 1..Len(s) |-> IF s[k] = "\\" THEN "/" ELSE s[k]]
SlashedStack(stack) ==
    [i \in 1..Len(stack) |-> [j \in 1..Len(stack[i]) |-> Slashed(stack[i][j])]]

\* C19: patterns and paths written with backslashes give the result of their
\* forward-slash forms.
C19_BackslashesBehaveAsSlashes ==
    op = "query" =>
        qResult = ShouldIgnoreOn(SlashedStack(patterns), basePath, Slashed(qPath))

(***************************************************************************)
(* package main: getAllFilesFromDir and its closure scanDir, one scanDir    *)
(* call per frame of wFrames.  The walk uses the stack fields patterns and  *)
(* basePath.                                                               *)
(***************************************************************************)

\* filepath.Join(dir, name).
filepathJoin(dir, name) == Clean(dir \o <<Separator>> \o name)

\* toSlash.
toSlash(path) == ToSlash(path)

\* doublestar.PathMatch on patterns without braces and escapes: pattern and name
\* are split at the separator, a "**" element takes any number of elements of the
\* name, every other element glob-matches exactly one ("*" stays within an element).
RECURSIVE pathMatchParts(_, _)
pathMatchParts(patternParts, nameParts) ==
    IF patternParts = <<>> THEN nameParts = <<>>
    ELSE IF Head(patternParts) = <<"*", "*">>
    THEN \/ pathMatchParts(Tail(patternParts), nameParts)
         \/ (nameParts # <<>> /\ pathMatchParts(patternParts, Tail(nameParts)))
    ELSE /\ nameParts # <<>>
         /\ RefGlob(Head(patternParts), Head(nameParts))
         /\ pathMatchParts(Tail(patternParts), Tail(nameParts))

PathMatch(pattern, path) ==
    pathMatchParts(Split(pattern, Separator), Split(path, Separator))

\* shouldExclude(path, patterns).
shouldExclude(path, excludePaths) ==
    \E k \in 1..Len(excludePaths) : PathMatch(excludePaths[k], path)

\* A directory as the file system holds it: what opening its .gitignore gives
\* (no such file, an error, or the lines of the file) and the entries ReadDir
\* lists, sorted by name.
NoIgnoreFile == [state |-> "missing", lines |-> <<>>]
UnreadableIgnoreFile == [state |-> "unreadable", lines |-> <<>>]
IgnoreFile(lines) == [state |-> "present", lines |-> lines]
Directory(ignoreFile, entries) == [ignoreFile |-> ignoreFile, entries |-> entries]
FileEntry(name) == [name |-> name, isDir |-> FALSE]
DirEntry(name, directory) == [name |-> name, isDir |-> TRUE, directory |-> directory]

\* parseGitignore(path/.gitignore): [err, patterns]; a missing file gives no
\* patterns and no error, blank lines and "#" lines are left out.
parseGitignore(directory) ==
    IF directory.ignoreFile.state = "missing" THEN [err |-> FALSE, patterns |-> <<>>]
    ELSE IF directory.ignoreFile.state = "unreadable" THEN [err |-> TRUE, patterns |-> <<>>]
    ELSE [err |-> FALSE,
          patterns |-> SelectSeq(directory.ignoreFile.lines,
                                 LAMBDA line : line # <<>> /\ line[1] # "#")]

\* Whether scanDir pushes a group (and defers its pop) for a directory.
pushesGroup(respectGitignore, directory) ==
    respectGitignore /\ ~parseGitignore(directory).err

\* Mutant of deferredPop: the pop is a last statement, skipped by an error return.
popOnNormalReturn(stack, frame) ==
    IF frame.pushedGroup /\ frame.exit = "normal" THEN popped(stack) ELSE stack

\* The deferred PopPatterns of a scanDir call, run on every return.
deferredPop(stack, frame) ==
    IF frame.pushedGroup THEN popped(stack) ELSE stack

\* A new scanDir(path) call, before its first statement.
scanDirCall(path, directory) ==
    [path |-> path, directory |-> directory, at |-> "entry", idx |-> 0,
     pushedGroup |-> FALSE, exit |-> "normal", startDepth |-> 0]

TopFrame == wFrames[Len(wFrames)]
ReplaceTop(frame) == [wFrames EXCEPT ![Len(wFrames)] = frame]

\* The inputs of a walk.
DirPool == { <<"/", "p">>, <<"q", "/">> }
ExcludePool == { <<>>, << <<"d">> >> }

GitDir == <<".", "g", "i", "t">>
GitignoreFile == <<".", "g", "i", "t", "i", "g", "n", "o", "r", "e">>
LeafDir == Directory(NoIgnoreFile, << FileEntry(<<"a", ".", "t">>), FileEntry(<<"b">>) >>)

TreePool ==
    { \* .gitignore: "#a", "", "*.t"
      Directory(IgnoreFile(<< <<"#", "a">>, <<>>, <<"*", ".", "t">> >>),
                << DirEntry(GitDir, Directory(NoIgnoreFile, << FileEntry(<<"b">>) >>)),
                   FileEntry(GitignoreFile),
                   FileEntry(<<"a", ".", "t">>),
                   FileEntry(<<"b">>),
                   DirEntry(<<"d">>, LeafDir) >>),
      \* no .gitignore; d/.gitignore: "b"; d/d/.gitignore cannot be read
      Directory(NoIgnoreFile,
                << FileEntry(<<"a", ".", "t">>),
                   DirEntry(<<"d">>,
                       Directory(IgnoreFile(<< <<"b">> >>),
                                 << FileEntry(GitignoreFile),
                                    DirEntry(<<"b">>, LeafDir),
                                    DirEntry(<<"d">>,
                                        Directory(UnreadableIgnoreFile,
                                                  << FileEntry(GitignoreFile),
                                                     FileEntry(<<"a", ".", "t">>) >>)) >>)) >>),
      \* .gitignore: "d/"; d/.gitignore: "!a.t", "!d"; no d/d/.gitignore
      Directory(IgnoreFile(<< <<"d", "/">> >>),
                << FileEntry(GitignoreFile),
                   DirEntry(<<"d">>,
                       Directory(IgnoreFile(<< <<"!", "a", ".", "t">>, <<"!", "d">> >>),
                                 << FileEntry(GitignoreFile),
                                    FileEntry(<<"a", ".", "t">>),
                                    DirEntry(<<"d">>, LeafDir) >>)) >>),
      \* no .gitignore; q/.gitignore: "a.t"
      Directory(NoIgnoreFile,
                << FileEntry(<<"a", ".", "t">>),
                   DirEntry(<<"q">>,
                       Directory(IgnoreFile(<< <<"a", ".", "t">> >>),
                                 << FileEntry(GitignoreFile),
                                    FileEntry(<<"a", ".", "t">>),
                                    FileEntry(<<"b">>) >>)) >>) }

\* The state after gitignoreStack := gitignore.NewStack(dir), scanDir(dir) called.
InitWalk ==
    /\ MatchIdle
    /\ ToolIdle
    /\ wDir \in DirPool
    /\ wTree \in TreePool
    /\ wExclude \in ExcludePool
    /\ wRespect \in BOOLEAN
    /\ patterns = New(Clean(wDir)).patterns
    /\ basePath = New(Clean(wDir)).basePath
    /\ op = "new"
    /\ qPath = <<>>
    /\ qResult = FALSE
    /\ ref = <<>>
    /\ wFrames = << scanDirCall(Clean(wDir), wTree) >>
    /\ wFiles = <<>>
    /\ wExcluded = <<>>
    /\ wpc = "scan"
    /\ wReturned = [path |-> <<>>, exit |-> "none", startDepth |-> 0, endDepth |-> 0]

\* scanDir up to its loop: the group of the directory's .gitignore is pushed and
\* its pop deferred, then ReadDir lists the entries or fails.
EnterDir(readDirFails) ==
    /\ wpc = "scan"
    /\ TopFrame.at = "entry"
    /\ LET push == pushesGroup(wRespect, TopFrame.directory)
       IN  /\ patterns' = IF push
                          THEN pushed(patterns, parseGitignore(TopFrame.directory).patterns)
                          ELSE patterns
           /\ wFrames' = ReplaceTop([TopFrame EXCEPT
                                        !.at = IF readDirFails THEN "return" ELSE "loop",
                                        !.exit = IF readDirFails THEN "readdir" ELSE "normal",
                                        !.pushedGroup = push,
                                        !.startDepth = Len(patterns)])
    /\ op' = IF pushesGroup(wRespect, TopFrame.directory) THEN "push" ELSE op
    /\ UNCHANGED <<basePath, qPath, qResult, ref>>
    /\ UNCHANGED <<wDir, wTree, wExclude, wRespect, wFiles, wExcluded, wpc, wReturned>>
    /\ UNCHANGED matchVars
    /\ UNCHANGED toolVars

\* The entry the loop of the innermost scanDir call is at, and what the loop body
\* computes for it.
CurrentEntry == At(TopFrame.directory.entries, TopFrame.idx)
EntryFullPath == filepathJoin(TopFrame.path, CurrentEntry.name)
EntryRel == Rel(Clean(wDir), EntryFullPath)
EntryRelativePath == toSlash(EntryRel.path)

\* The entry is passed over without a record: Rel failed, a directory named .git,
\* a file named .gitignore.
EntrySkipped ==
    \/ EntryRel.err
    \/ (CurrentEntry.isDir /\ CurrentEntry.name = GitDir)
    \/ (~CurrentEntry.isDir /\ CurrentEntry.name = GitignoreFile)

\* Mutant of EntryExcluded: the explicit exclude list is not consulted.
EntryExcludedByStackOnly ==
    wRespect /\ ShouldIgnoreOn(patterns, basePath, EntryFullPath)

\* The entry is excluded by an exclude pattern or by the ignore stack.
EntryExcluded ==
    \/ shouldExclude(EntryRelativePath, wExclude)
    \/ (wRespect /\ ShouldIgnoreOn(patterns, basePath, EntryFullPath))

\* The loop body reaches gitignoreStack.ShouldIgnore(fullPath): the entry is not
\* passed over, no exclude pattern matches it, and respectGitignore is on.
EntryQueried ==
    /\ ~EntrySkipped
    /\ ~shouldExclude(EntryRelativePath, wExclude)
    /\ wRespect

\* The innermost call with its loop moved to the next entry.
NextEntry == ReplaceTop([TopFrame EXCEPT !.idx = TopFrame.idx + 1])

\* One iteration of the loop over the entries.
VisitEntry ==
    /\ wpc = "scan"
    /\ TopFrame.at = "loop"
    /\ TopFrame.idx < Len(TopFrame.directory.entries)
    /\ IF EntrySkipped
       THEN wFrames' = NextEntry /\ UNCHANGED <<wFiles, wExcluded>>
       ELSE IF EntryExcluded
       THEN /\ wFrames' = NextEntry
            /\ wExcluded' = Append(wExcluded, EntryRelativePath)
            /\ UNCHANGED wFiles
       ELSE IF CurrentEntry.isDir
       THEN /\ wFrames' = Append(wFrames, scanDirCall(EntryFullPath, CurrentEntry.directory))
            /\ UNCHANGED <<wFiles, wExcluded>>
       ELSE /\ wFrames' = NextEntry
            /\ wFiles' = Append(wFiles, toSlash(EntryFullPath))
            /\ UNCHANGED wExcluded
    /\ op' = IF EntryQueried THEN "query" ELSE op
    /\ qPath' = IF EntryQueried THEN EntryFullPath ELSE qPath
    /\ UNCHANGED qResult
    /\ UNCHANGED <<patterns, basePath, ref>>
    /\ UNCHANGED <<wDir, wTree, wExclude, wRespect, wpc, wReturned>>
    /\ UNCHANGED matchVars
    /\ UNCHANGED toolVars

\* A scanDir call returns: nil after the last entry, or the error of ReadDir or of
\* a nested call; its deferred pop runs, and the caller goes on or returns the error.
ReturnDir ==
    /\ wpc = "scan"
    /\ \/ TopFrame.at = "return"
       \/ TopFrame.at = "loop" /\ TopFrame.idx = Len(TopFrame.directory.entries)
    /\ LET callers == SubSeq(wFrames, 1, Len(wFrames) - 1)
           caller == callers[Len(callers)]
           stack == deferredPop(patterns, TopFrame)
       IN  /\ patterns' = stack
           /\ wReturned' = [path |-> TopFrame.path, exit |-> TopFrame.exit,
                            startDepth |-> TopFrame.startDepth, endDepth |-> Len(stack)]
           /\ IF callers = <<>>
              THEN wFrames' = <<>> /\ wpc' = "done"
              ELSE /\ wpc' = wpc
                   /\ wFrames' = [callers EXCEPT ![Len(callers)] =
                                     IF TopFrame.exit = "normal"
                                     THEN [caller EXCEPT !.idx = caller.idx + 1]
                                     ELSE [caller EXCEPT !.at = "return", !.exit = "nested"]]
    /\ op' = IF TopFrame.pushedGroup THEN "pop" ELSE op
    /\ UNCHANGED <<basePath, qPath, qResult, ref>>
    /\ UNCHANGED <<wDir, wTree, wExclude, wRespect, wFiles, wExcluded>>
    /\ UNCHANGED matchVars
    /\ UNCHANGED toolVars

NextWalk ==
    \/ \E readDirFails \in BOOLEAN : EnterDir(readDirFails)
    \/ VisitEntry
    \/ ReturnDir

SpecWalk == InitWalk /\ [][NextWalk]_vars

(***************************************************************************)
(* Properties of the directory walker (specification SpecWalk).            *)
(***************************************************************************)

\* The groups of the directories of the active scanDir calls that push one, from
\* the root of the walk down.
GroupsOnPath ==
    LET pushing == SelectSeq(wFrames,
                             LAMBDA f : wRespect /\ f.directory.ignoreFile.state # "unreadable")
    IN  [k \in 1..Len(pushing) |-> parseGitignore(pushing[k].directory).patterns]

\* C20: a scanDir call returns with the stack depth it started with, on every exit
\* path; while a directory's entries are visited the stack holds exactly the groups
\* of the directories from the root to it; after the traversal the depth is 0.
C20_BalancedScopes ==
    /\ wReturned.exit # "none" => wReturned.endDepth = wReturned.startDepth
    /\ (wpc = "scan" /\ TopFrame.at = "loop") => patterns = GroupsOnPath
    /\ wpc = "done" => Len(patterns) = 0

\* A traversal that pushed groups on three levels has been ended by a ReadDir error
\* two levels below the root.
C20_Witness ==
    /\ wpc = "done"
    /\ wRespect
    /\ wTree.ignoreFile.lines = << <<"d", "/">> >>
    /\ wReturned.exit = "nested"
    /\ wFiles = << <<"/", "p", "/", "d", "/", "a", ".", "t">> >>
    /\ Len(patterns) = 0

(***************************************************************************)
(* Properties of the two Match attempts of ShouldIgnore (specification      *)
(* SpecMatch).                                                             *)
(***************************************************************************)

\* C28: for a relative path, the attempt without the "**/" prefix is true only when
\* the attempt with it already was: for a pattern without "/" and for a directory
\* stem followed by "/**/*".
C28_FallbackNeverChangesVerdict ==
    (mpc = "done" /\ ~Anchored(mPath)) =>
        /\ (~Contains(mPattern, "/") /\ mOutcome = "true")
               => Match(<<"*", "*", "/">> \o mPattern, mPath)
        /\ Match(mPattern \o <<"/", "*", "*", "/", "*">>, mPath)
               => Match(<<"*", "*", "/">> \o mPattern \o <<"/", "*", "*", "/", "*">>, mPath)

\* A slash-free pattern has matched a one-component path, without the "**/" prefix
\* and with it.
C28_Witness ==
    /\ mpc = "done"
    /\ mPattern = <<"?", "*">>
    /\ mPath = <<"a", "b">>
    /\ mOutcome = "true"
    /\ Match(<<"*", "*", "/">> \o mPattern, mPath)

(***************************************************************************)
(* The ignore stack on patterns and paths at the edges of the syntax:      *)
(* patterns made of "!" and "/" only, and names that begin with two dots.  *)
(***************************************************************************)
EdgeGroupPool ==
    { << <<"*">> >>,                                        \* *
      << <<"!">> >>,                                        \* !
      << <<"/">> >>,                                        \* /
      << <<"!", "/">> >>,                                   \* !/
      << <<"/", "/">> >>,                                   \* //
      << <<>>, <<"!", "a", ".", "t">> >> }                  \* "", !a.t

EdgePathPool ==
    { <<"/", "p", "/", "a", ".", "t">>,                     \* /p/a.t
      <<"/", "p", "/", "d", "/", "a", ".", "t">>,           \* /p/d/a.t
      <<"/", "p", "/", ".", ".", "b">>,                     \* /p/..b
      <<"/", "p", "/", ".", ".", "b", "/", "a", ".", "t">>, \* /p/..b/a.t
      <<"/", "p", "/", ".", ".", "/", "a", ".", "t">>,      \* /p/../a.t
      <<"q", "/", ".", ".", "b">>,                          \* q/..b
      <<"/", "p">> }                                        \* /p

NextEdge ==
    \/ \E group \in EdgeGroupPool : PushPatterns(group)
    \/ PopPatterns
    \/ \E path \in EdgePathPool : ShouldIgnore(path)

SpecEdge == Init /\ [][NextEdge]_vars

\* C29: a queried path is exempt from the patterns only when the first component
\* of its base-relative form is "..": every other path, a name such as "..b"
\* included, gets the verdict of the scan of the active groups.
C29_OnlyParentComponentIsExempt ==
    (op = "query" /\ ~QRel.err /\ ~Escaped)
        => qResult = scanLevels(patterns, QRel.relPath, levelOrder(patterns))

\* A pattern of which nothing is left once a leading "!", a leading "/" and a
\* trailing "/" are removed.
Blank(raw) == raw \in { <<>>, <<"!">>, <<"/">>, <<"!", "/">>, <<"/", "/">> }

RECURSIVE withoutBlank(_)
withoutBlank(group) ==
    IF group = <<>> THEN <<>>
    ELSE IF Blank(Head(group)) THEN withoutBlank(Tail(group))
    ELSE <<Head(group)>> \o withoutBlank(Tail(group))

\* The stack with the blank patterns taken out of every group.
WithoutBlank(stack) == [i \in 1..Len(stack) |-> withoutBlank(stack[i])]

\* C30: blank patterns match no path: a query answers as it would with the blank
\* patterns removed from every group, so that a group of blank patterns alone
\* neither ignores a path nor keeps the shallower groups from deciding.
C30_BlankPatternsMatchNothing ==
    Scanned => qResult = scanLevels(WithoutBlank(patterns), QRel.relPath,
                                    levelOrder(patterns))

(***************************************************************************)
(* Properties of the exclusion filter of the directory walker              *)
(* (specification SpecWalk).                                               *)
(***************************************************************************)

\* The loop of the innermost scanDir call is about to handle an entry.
AtEntry ==
    /\ wpc = "scan"
    /\ TopFrame.at = "loop"
    /\ TopFrame.idx < Len(TopFrame.directory.entries)

\* The entry at hand matches an exclude pattern, or respect_gitignore is on and the
\* stack as it stands ignores it.
FilteredOut ==
    \/ \E k \in 1..Len(wExclude) : PathMatch(wExclude[k], EntryRelativePath)
    \/ (wRespect /\ ShouldIgnoreOn(patterns, basePath, EntryFullPath))

\* Handling a filtered-out entry adds nothing to the file list and starts no
\* scanDir call for it; unless it is a .git directory or a .gitignore file, its
\* relative path is appended to the excluded list.
ExcludedEntryStep ==
    (AtEntry /\ FilteredOut) =>
        /\ wFiles' = wFiles
        /\ Len(wFrames') = Len(wFrames)
        /\ ~EntrySkipped => wExcluded' = Append(wExcluded, EntryRelativePath)

\* path is the excluded path e or lies below it.
Under(path, e) == path = e \/ HasPrefix(path, e \o <<"/">>)

\* The base-relative form of a path of the walk.
WalkRel(path) == toSlash(Rel(Clean(wDir), path).path)

\* Every excluded path is recorded once, and nothing at or below it is listed,
\* recorded or being scanned.
ExcludedOnceAndNotEntered ==
    \A k \in 1..Len(wExcluded) :
        /\ \A m \in 1..Len(wExcluded) : m # k => ~Under(wExcluded[m], wExcluded[k])
        /\ \A i \in 1..Len(wFiles) : ~Under(WalkRel(wFiles[i]), wExcluded[k])
        /\ \A f \in 1..Len(wFrames) : ~Under(WalkRel(wFrames[f].path), wExcluded[k])

\* With respect_gitignore off the stack is neither pushed nor queried.
StackUntouchedWhenOff == ~wRespect => (patterns = <<>> /\ op = "new")

\* No string is in both returned lists.
ListsDisjoint ==
    \A i \in 1..Len(wFiles) : \A k \in 1..Len(wExcluded) : wFiles[i] # wExcluded[k]

\* No entry is in both returned lists: the file list holds the path of a file as
\* scanDir joined it, the excluded list the path relative to the walked directory.
ListsDisjointAsEntries ==
    \A i \in 1..Len(wFiles) : \A k \in 1..Len(wExcluded) :
        WalkRel(wFiles[i]) # wExcluded[k]

\* C27 as stated: an entry that matches an exclude pattern or that the stack ignores
\* when it is visited is kept out of the file list, recorded once and not descended
\* into; the file list and the excluded list have no element in common; with
\* respect_gitignore off the stack is never pushed or queried.
C27_ExclusionFilter ==
    /\ [][ExcludedEntryStep]_vars
    /\ [](ExcludedOnceAndNotEntered /\ StackUntouchedWhenOff /\ ListsDisjoint)

\* C27, amended: the same, with the two lists disjoint as lists of entries (a file's
\* joined path may be spelled like the relative path of another, excluded entry).
C27_ExclusionFilterByEntry ==
    /\ [][ExcludedEntryStep]_vars
    /\ [](ExcludedOnceAndNotEntered /\ StackUntouchedWhenOff /\ ListsDisjointAsEntries)

\* A walk with an exclude pattern and respect_gitignore on has ended with the
\* directory d excluded by the pattern and a.t excluded by the stack.
C27_Witness ==
    /\ wpc = "done"
    /\ wRespect
    /\ wExclude = << <<"d">> >>
    /\ wExcluded = << <<"a", ".", "t">>, <<"d">> >>
    /\ wFiles = << <<"/", "p", "/", "b">> >>

(***************************************************************************)
(* package main: getAllFilesFromZip, the walker of an archive.  The archive *)
(* is a list of entries in stored order; an entry named .gitignore carries  *)
(* what opening it gives.                                                  *)
(***************************************************************************)

\* The index of the last separator of path, 0 when it has none.
lastSeparator(path) ==
    LET at == {k \in 1..Len(path) : path[k] = Separator}
    IN  IF at = {} THEN 0 ELSE CHOOSE k \in at : \A m \in at : m <= k

\* filepath.Dir(path).
Dir(path) == Clean(SubSeq(path, 1, lastSeparator(path)))

\* path without its trailing separators.
RECURSIVE trimSeparators(_)
trimSeparators(path) ==
    IF Len(path) > 0 /\ path[Len(path)] = Separator
    THEN trimSeparators(SubSeq(path, 1, Len(path) - 1))
    ELSE path

\* filepath.Base(path).
Base(path) ==
    IF path = <<>> THEN <<".">>
    ELSE LET trimmed == trimSeparators(path)
         IN  IF trimmed = <<>> THEN <<Separator>>
             ELSE SubSeq(trimmed, lastSeparator(trimmed) + 1, Len(trimmed))

\* A *zip.File: f.Name, f.FileInfo().IsDir() and, for an ignore file, what f.Open
\* and the scanner give.
ZipFile(name, isDir, content) == [name |-> name, isDir |-> isDir, content |-> content]

\* parseGitignoreFromZipFile(f): [err, patterns].
parseGitignoreFromZipFile(f) ==
    IF f.content.state = "present"
    THEN [err |-> FALSE,
          patterns |-> SelectSeq(f.content.lines,
                                 LAMBDA line : line # <<>> /\ line[1] # "#")]
    ELSE [err |-> TRUE, patterns |-> <<>>]

\* m[dir] = group for the map m.
mapPut(m, dir, group) ==
    {e \in m : e.dir # dir} \cup {[dir |-> dir, patterns |-> group]}

\* m[dir]: [exists, patterns].
mapGet(m, dir) ==
    IF \E e \in m : e.dir = dir
    THEN [exists |-> TRUE, patterns |-> (CHOOSE e \in m : e.dir = dir).patterns]
    ELSE [exists |-> FALSE, patterns |-> <<>>]

\* Whether any pattern of a group matches name under doublestar.PathMatch.
anyPathMatch(group, name) == \E k \in 1..Len(group) : PathMatch(group[k], name)

\* The first loop of shouldIgnoreInZip, from directory dir upwards.
RECURSIVE parentIgnores(_, _, _)
parentIgnores(m, dir, path) ==
    IF dir = <<".">> \/ dir = <<"/">> THEN FALSE
    ELSE \/ /\ mapGet(m, dir).exists
            /\ anyPathMatch(mapGet(m, dir).patterns, Rel(dir, path).path)
         \/ parentIgnores(m, Dir(dir), path)

\* The closure shouldIgnoreInZip(path).
shouldIgnoreInZip(m, respectGitignore, path) ==
    IF ~respectGitignore THEN FALSE
    ELSE \/ parentIgnores(m, Dir(path), path)
         \/ /\ mapGet(m, <<".">>).exists
            /\ anyPathMatch(mapGet(m, <<".">>).patterns, path)

\* The archive of a directory tree: its entries in depth-first order, a directory
\* stored as an entry of its own named with a trailing "/".
RECURSIVE archiveOf(_, _, _)
archiveOf(entries, prefix, ignoreFile) ==
    IF entries = <<>> THEN <<>>
    ELSE LET e == Head(entries)
             rest == archiveOf(Tail(entries), prefix, ignoreFile)
         IN  IF e.isDir
             THEN <<ZipFile(prefix \o e.name \o <<"/">>, TRUE, NoIgnoreFile)>>
                  \o archiveOf(e.directory.entries, prefix \o e.name \o <<"/">>,
                               e.directory.ignoreFile)
                  \o rest
             ELSE <<ZipFile(prefix \o e.name, FALSE,
                            IF e.name = GitignoreFile THEN ignoreFile ELSE NoIgnoreFile)>>
                  \o rest

ArchivePool == {archiveOf(tree.entries, <<>>, tree.ignoreFile) : tree \in TreePool}

\* The state after zip.OpenReader(zipPath) succeeded.
InitZip ==
    /\ StackIdle
    /\ MatchIdle
    /\ WalkIdle
    /\ CompareIdle
    /\ MainIdle
    /\ zArchive \in ArchivePool
    /\ zExclude \in ExcludePool
    /\ zRespect \in BOOLEAN
    /\ gitignorePatterns = {}
    /\ zIdx = 0
    /\ zFiles = <<>>
    /\ zExcluded = <<>>
    /\ zpc = "collect"

ZipFileAt == At(zArchive, zIdx)
ZipName == toSlash(ZipFileAt.name)

\* One iteration of the loop that collects the patterns of the ignore files.
CollectIgnoreFile ==
    /\ zpc = "collect"
    /\ zRespect
    /\ zIdx < Len(zArchive)
    /\ gitignorePatterns' =
           IF /\ Base(ZipFileAt.name) = GitignoreFile
              /\ ~parseGitignoreFromZipFile(ZipFileAt).err
           THEN mapPut(gitignorePatterns, toSlash(Dir(ZipFileAt.name)),
                       parseGitignoreFromZipFile(ZipFileAt).patterns)
           ELSE gitignorePatterns
    /\ zIdx' = zIdx + 1
    /\ UNCHANGED <<zArchive, zExclude, zRespect, zFiles, zExcluded, zpc>>
    /\ UNCHANGED <<stackVars, matchVars, walkVars, cmpVars, mainVars>>

\* The first loop is over, or is not run at all with respectGitignore off.
StartProcessing ==
    /\ zpc = "collect"
    /\ ~zRespect \/ zIdx = Len(zArchive)
    /\ zpc' = "process"
    /\ zIdx' = 0
    /\ UNCHANGED <<zArchive, zExclude, zRespect, gitignorePatterns, zFiles, zExcluded>>
    /\ UNCHANGED <<stackVars, matchVars, walkVars, cmpVars, mainVars>>

\* The entry is passed over without a record: a directory, a file named .gitignore.
ZipFileSkipped == ZipFileAt.isDir \/ Base(ZipName) = GitignoreFile

\* The entry is excluded by an exclude pattern or by the collected ignore patterns.
ZipFileExcluded ==
    \/ shouldExclude(ZipName, zExclude)
    \/ shouldIgnoreInZip(gitignorePatterns, zRespect, ZipName)

\* One iteration of the loop over all files.
ProcessZipFile ==
    /\ zpc = "process"
    /\ zIdx < Len(zArchive)
    /\ IF ZipFileSkipped THEN UNCHANGED <<zFiles, zExcluded>>
       ELSE IF ZipFileExcluded
       THEN zExcluded' = Append(zExcluded, ZipName) /\ UNCHANGED zFiles
       ELSE zFiles' = Append(zFiles, ZipName) /\ UNCHANGED zExcluded
    /\ zIdx' = zIdx + 1
    /\ UNCHANGED <<zArchive, zExclude, zRespect, gitignorePatterns, zpc>>
    /\ UNCHANGED <<stackVars, matchVars, walkVars, cmpVars, mainVars>>

\* getAllFilesFromZip returns files and excludedFiles.
ReturnZip ==
    /\ zpc = "process"
    /\ zIdx = Len(zArchive)
    /\ zpc' = "done"
    /\ UNCHANGED <<zArchive, zExclude, zRespect, gitignorePatterns, zIdx, zFiles, zExcluded>>
    /\ UNCHANGED <<stackVars, matchVars, walkVars, cmpVars, mainVars>>

NextZip ==
    \/ CollectIgnoreFile
    \/ StartProcessing
    \/ ProcessZipFile
    \/ ReturnZip

SpecZip == InitZip /\ [][NextZip]_vars

(***************************************************************************)
(* Properties of the two walkers' results (specifications SpecWalk and     *)
(* SpecZip).                                                               *)
(***************************************************************************)

\* A path names a .gitignore file or lies under a directory named .git.
GitInternal(path) ==
    LET parts == Components(path)
    IN  \/ (Len(parts) > 0 /\ parts[Len(parts)] = GitignoreFile)
        \/ \E k \in 1..(Len(parts) - 1) : parts[k] = GitDir

\* C21: neither walker has, in its list of files to compare, a .gitignore file or
\* a file under a .git directory, whatever the exclude patterns, the ignore rules
\* and respect_gitignore are.
C21_GitFilesNeverCompared ==
    /\ \A i \in 1..Len(wFiles) : ~GitInternal(wFiles[i])
    /\ \A i \in 1..Len(zFiles) : ~GitInternal(zFiles[i])

\* The directories from the root of the archive down to the one holding name, the
\* root being ".".
DirsAbove(name) ==
    LET parts == Components(name)
    IN  [k \in 1..Len(parts) |->
            IF k = 1 THEN <<".">> ELSE Join(SubSeq(parts, 1, k - 1), "/")]

\* The group the directory walker pushes for a directory of the archive: the
\* patterns of its readable .gitignore, no pattern without one.
GroupOfDir(dir) ==
    LET ignoreName == IF dir = <<".">> THEN GitignoreFile
                      ELSE dir \o <<"/">> \o GitignoreFile
        found == {k \in 1..Len(zArchive) : zArchive[k].name = ignoreName}
    IN  IF found = {} THEN <<>>
        ELSE parseGitignoreFromZipFile(zArchive[CHOOSE k \in found : TRUE]).patterns

\* The stack the directory walker holds when it visits name in the same tree.
StackAt(name) == [k \in 1..Len(DirsAbove(name)) |-> GroupOfDir(DirsAbove(name)[k])]

\* The archive's files the second loop has put to the ignore patterns: processed,
\* not passed over, and matched by no exclude pattern.
JudgedFiles ==
    {k \in 1..Len(zArchive) :
        /\ zpc = "done" \/ (zpc = "process" /\ k <= zIdx)
        /\ ~zArchive[k].isDir
        /\ Base(zArchive[k].name) # GitignoreFile
        /\ ~shouldExclude(zArchive[k].name, zExclude)}

\* C22: with respect_gitignore on, the archive walker ignores a file exactly when
\* the ignore stack, holding the groups of the directories above the file, ignores
\* that file.
C22_ArchiveKeepsLevelSemantics ==
    zRespect =>
        \A k \in JudgedFiles :
            (\E i \in 1..Len(zExcluded) : zExcluded[i] = zArchive[k].name)
                <=> ShouldIgnoreOn(StackAt(zArchive[k].name), <<"/", "p">>,
                                   <<"/", "p", "/">> \o zArchive[k].name)

(***************************************************************************)
(* package main: compareFileLists, as compareRepos and compareWithZip call *)
(* it, and filesAreEqual.                                                  *)
(***************************************************************************)

\* strings a < b, as sort.Strings orders them.
RECURSIVE stringLess(_, _)
stringLess(a, b) ==
    IF b = <<>> THEN FALSE
    ELSE IF a = <<>> THEN TRUE
    ELSE IF Head(a) = Head(b) THEN stringLess(Tail(a), Tail(b))
    ELSE Code(Head(a)) < Code(Head(b))

\* sort.Strings(list).
RECURSIVE sortStrings(_)
sortStrings(list) ==
    IF list = <<>> THEN <<>>
    ELSE LET least == CHOOSE k \in 1..Len(list) :
                          \A m \in 1..Len(list) : ~stringLess(list[m], list[k])
         IN  <<list[least]>>
             \o sortStrings(SubSeq(list, 1, least - 1) \o SubSeq(list, least + 1, Len(list)))

\* The map a loop of compareFileLists builds from a file list: a file whose
\* relative path cannot be made is left out, a later file replaces an earlier one
\* with the same relative path.
RECURSIVE buildMap(_, _, _)
buildMap(files, dir, m) ==
    IF files = <<>> THEN m
    ELSE LET r == Rel(dir, Head(files))
         IN  buildMap(Tail(files), dir,
                      IF r.err THEN m
                      ELSE {e \in m : e.key # r.path}
                           \cup {[key |-> r.path, file |-> Head(files)]})

mapKeys(m) == {e.key : e \in m}
mapFile(m, key) == (CHOOSE e \in m : e.key = key).file

\* Mutant of deleteKey: the entry stays in the map.
deleteNothing(m, key) == m

\* delete(targetMap, path).
deleteKey(m, key) == {e \in m : e.key # key}

\* What reading a file gives: [err, version, name].  The working directory holds
\* the source files; a target directory holds the target files; the files of an
\* archive are not on disk.  Two contents are equal when version and name are.
ReadFile(file) ==
    IF \E i \in 1..Len(sourceFiles) : sourceFiles[i] = file
    THEN LET name == Rel(sourceDir, file).path
         IN  [err |-> FALSE, name |-> name,
              version |-> IF name \in cSame THEN "both" ELSE "source"]
    ELSE IF cMode = "dir" /\ \E i \in 1..Len(targetFiles) : targetFiles[i] = file
    THEN LET name == Rel(targetDir, file).path
         IN  [err |-> FALSE, name |-> name,
              version |-> IF name \in cSame THEN "both" ELSE "target"]
    ELSE [err |-> TRUE, name |-> <<>>, version |-> "none"]

\* readFileFromZip(zipFilePath): the name holds no "::", so splitZipPath gives two
\* empty strings and zip.OpenReader("") fails.
readFileFromZip(zipFilePath) == [err |-> TRUE, name |-> <<>>, version |-> "none"]

\* The content filesAreEqual reads for one of its arguments.
readContent(file) ==
    IF HasSuffix(file, <<".", "z", "i", "p">>) THEN readFileFromZip(file)
    ELSE ReadFile(file)

filesAreEqual(file1, file2) ==
    LET content1 == readContent(file1)
        content2 == readContent(file2)
    IN  IF content1.err \/ content2.err THEN FALSE
        ELSE content1 = content2

\* The inputs of a comparison: the files a walk of the source (".") found and the
\* files a walk of the target found, of a directory or of an archive.
NamePool == << <<"a", ".", "t">>, <<"b">>, <<"d", "/", "a", ".", "t">> >>
TargetDirPool == { <<"/", "p">>, <<"q">> }
TargetZipPool == { <<"/", "p", "/", "t", ".", "z", "i", "p">>, <<"t", ".", "z", "i", "p">> }
NamesIn(set) == SelectSeq(NamePool, LAMBDA name : name \in set)
NameSets == SUBSET {NamePool[k] : k \in 1..Len(NamePool)}

\* The state at the call compareFileLists(sourceFiles, targetFiles, sourceDir,
\* targetDir, config, &result).
InitCompare ==
    /\ StackIdle
    /\ MatchIdle
    /\ WalkIdle
    /\ ZipIdle
    /\ MainIdle
    /\ cMode \in {"dir", "zip"}
    /\ cSame \in SUBSET {NamePool[1], NamePool[2]}
    /\ sourceDir = <<".">>
    /\ targetDir \in IF cMode = "dir" THEN TargetDirPool ELSE TargetZipPool
    /\ \E names \in NameSets :
          sourceFiles = [k \in 1..Len(NamesIn(names)) |->
                            filepathJoin(sourceDir, NamesIn(names)[k])]
    /\ \E names \in NameSets :
          targetFiles = [k \in 1..Len(NamesIn(names)) |->
                            IF cMode = "dir" THEN filepathJoin(targetDir, NamesIn(names)[k])
                            ELSE NamesIn(names)[k]]
    /\ sourceMap = {}
    /\ targetMap = {}
    /\ cSeen = [source |-> {}, target |-> {}]
    /\ result = NoResult
    /\ cpc = "maps"

\* The two loops that fill sourceMap and targetMap.
BuildMaps ==
    /\ cpc = "maps"
    /\ sourceMap' = buildMap(sourceFiles, sourceDir, {})
    /\ targetMap' = buildMap(targetFiles, targetDir, {})
    /\ cpc' = "loops"
    /\ UNCHANGED <<cMode, cSame, sourceDir, targetDir, sourceFiles, targetFiles, cSeen, result>>
    /\ UNCHANGED <<stackVars, matchVars, walkVars, zipVars, mainVars>>

\* One iteration of the range loop over sourceMap, in any order of the keys.
CompareSourceFile(path) ==
    /\ cpc = "loops"
    /\ path \in mapKeys(sourceMap) \ cSeen.source
    /\ IF path \in mapKeys(targetMap)
       THEN /\ result' =
                   IF filesAreEqual(mapFile(sourceMap, path), mapFile(targetMap, path))
                   THEN [result EXCEPT !.IdenticalFiles = Append(@, path)]
                   ELSE [result EXCEPT !.DifferentFiles = Append(@, path)]
            /\ targetMap' = deleteKey(targetMap, path)
       ELSE /\ result' = [result EXCEPT !.SourceOnlyFiles = Append(@, path)]
            /\ UNCHANGED targetMap
    /\ cSeen' = [cSeen EXCEPT !.source = @ \cup {path}]
    /\ UNCHANGED <<cMode, cSame, sourceDir, targetDir, sourceFiles, targetFiles, sourceMap, cpc>>
    /\ UNCHANGED <<stackVars, matchVars, walkVars, zipVars, mainVars>>

\* One iteration of the range loop over what is left of targetMap.
ListTargetOnly(path) ==
    /\ cpc = "loops"
    /\ cSeen.source = mapKeys(sourceMap)
    /\ path \in mapKeys(targetMap) \ cSeen.target
    /\ result' = [result EXCEPT !.TargetOnlyFiles = Append(@, path)]
    /\ cSeen' = [cSeen EXCEPT !.target = @ \cup {path}]
    /\ UNCHANGED <<cMode, cSame, sourceDir, targetDir, sourceFiles, targetFiles,
                   sourceMap, targetMap, cpc>>
    /\ UNCHANGED <<stackVars, matchVars, walkVars, zipVars, mainVars>>

\* The four sort.Strings calls, and the return.
SortResults ==
    /\ cpc = "loops"
    /\ cSeen.source = mapKeys(sourceMap)
    /\ cSeen.target = mapKeys(targetMap)
    /\ result' = [IdenticalFiles |-> sortStrings(result.IdenticalFiles),
                  DifferentFiles |-> sortStrings(result.DifferentFiles),
                  SourceOnlyFiles |-> sortStrings(result.SourceOnlyFiles),
                  TargetOnlyFiles |-> sortStrings(result.TargetOnlyFiles)]
    /\ cpc' = "done"
    /\ UNCHANGED <<cMode, cSame, sourceDir, targetDir, sourceFiles, targetFiles,
                   sourceMap, targetMap, cSeen>>
    /\ UNCHANGED <<stackVars, matchVars, walkVars, zipVars, mainVars>>

\* The keys the two maps can hold: a name, or a name below "..".
KeyPool ==
    {NamePool[k] : k \in 1..Len(NamePool)}
        \cup {<<".", ".", "/">> \o NamePool[k] : k \in 1..Len(NamePool)}

NextCompare ==
    \/ BuildMaps
    \/ \E path \in KeyPool : CompareSourceFile(path)
    \/ \E path \in KeyPool : ListTargetOnly(path)
    \/ SortResults

SpecCompare == InitCompare /\ [][NextCompare]_vars

(***************************************************************************)
(* Properties of the comparison (specification SpecCompare).               *)
(***************************************************************************)

\* The relative paths of a file list: what filepath.Rel makes of each file that
\* it can make relative to dir.
RelativePaths(files, dir) ==
    {Rel(dir, files[i]).path : i \in {k \in 1..Len(files) : ~Rel(dir, files[k]).err}}

SourcePaths == RelativePaths(sourceFiles, sourceDir)
TargetPaths == RelativePaths(targetFiles, targetDir)

Elements(list) == {list[i] : i \in 1..Len(list)}
Occurrences(list, x) == Cardinality({i \in 1..Len(list) : list[i] = x})
Sorted(list) == \A i \in 1..(Len(list) - 1) : ~stringLess(list[i + 1], list[i])

\* The four lists one after the other.
AllListed ==
    result.IdenticalFiles \o result.DifferentFiles
        \o result.SourceOnlyFiles \o result.TargetOnlyFiles

\* C26: when compareFileLists has returned, every relative path of the source or
\* the target list is in exactly one of the four lists, once, and the lists hold
\* nothing else; IdenticalFiles and DifferentFiles hold the paths of both sides,
\* SourceOnlyFiles those of the source alone, TargetOnlyFiles those of the target
\* alone; each list is sorted.
C26_ListsPartitionThePaths ==
    cpc = "done" =>
        /\ Elements(AllListed) = SourcePaths \cup TargetPaths
        /\ \A path \in SourcePaths \cup TargetPaths : Occurrences(AllListed, path) = 1
        /\ Elements(result.IdenticalFiles) \cup Elements(result.DifferentFiles)
               = SourcePaths \cap TargetPaths
        /\ Elements(result.SourceOnlyFiles) = SourcePaths \ TargetPaths
        /\ Elements(result.TargetOnlyFiles) = TargetPaths \ SourcePaths
        /\ Sorted(result.IdenticalFiles)
        /\ Sorted(result.DifferentFiles)
        /\ Sorted(result.SourceOnlyFiles)
        /\ Sorted(result.TargetOnlyFiles)

\* A comparison of two directories has returned with one file of both sides,
\* identical, and two files of the source alone.
C26_Witness ==
    /\ cpc = "done"
    /\ cMode = "dir"
    /\ cSeen.source = {NamePool[1], NamePool[2], NamePool[3]}
    /\ result.IdenticalFiles = << NamePool[1] >>
    /\ result.SourceOnlyFiles = << NamePool[2], NamePool[3] >>
    /\ result.DifferentFiles = <<>>
    /\ result.TargetOnlyFiles = <<>>

\* The names of the files of the archive, as getAllFilesFromZip returns them.
ArchiveNames == Elements(targetFiles)

\* C25: a comparison with an archive goes by relative path: a file at the same
\* relative path in the source directory and in the archive is identical or
\* different by its content, a source-only file is one the archive lacks, a
\* target-only file one the source lacks.
C25_ArchiveComparedByRelativePath ==
    (cpc = "done" /\ cMode = "zip") =>
        /\ \A name \in SourcePaths \cap ArchiveNames :
              IF name \in cSame THEN name \in Elements(result.IdenticalFiles)
              ELSE name \in Elements(result.DifferentFiles)
        /\ \A name \in Elements(result.SourceOnlyFiles) : name \notin ArchiveNames
        /\ \A name \in Elements(result.TargetOnlyFiles) :
              name \in ArchiveNames /\ name \notin SourcePaths

(***************************************************************************)
(* package main: one run of the command, from the PersistentPreRunE hook   *)
(* of main to the end of runMain.                                          *)
(***************************************************************************)

\* A target field of the run: the flag's value when the flag is given, else the
\* value of the configuration file (viper's precedence for a bound flag).
merged(flagValue, fileValue) == IF flagValue # <<>> THEN flagValue ELSE fileValue

\* viper.Unmarshal(&config) after the file was read: the target fields.
unmarshalled(flagTargets, fileTargets) ==
    [TargetURL |-> merged(flagTargets.TargetURL, fileTargets.TargetURL),
     TargetPath |-> merged(flagTargets.TargetPath, fileTargets.TargetPath),
     TargetZip |-> merged(flagTargets.TargetZip, fileTargets.TargetZip)]

\* Whether viper.ReadInConfig lets PersistentPreRunE go on, and with
\* configLoadedFromFile set or not: [err, loaded].  A --config file must be read;
\* the default file may be missing.
readInConfig(configFlag, state) ==
    IF configFlag # <<>>
    THEN [err |-> state \in {"notFound", "unreadable"}, loaded |-> TRUE]
    ELSE [err |-> state = "unreadable", loaded |-> state # "notFound"]

\* PersistentPreRunE: [err, config], config being the variable of main that Run
\* hands to runMain.
persistentPreRunE(fl, file) ==
    LET read == readInConfig(fl.config, file.state)
    IN  IF read.err THEN [err |-> TRUE, config |-> NoTargets]
        ELSE IF ~read.loaded THEN [err |-> FALSE, config |-> NoTargets]
        ELSE IF file.state = "mistyped" THEN [err |-> TRUE, config |-> NoTargets]
        ELSE [err |-> ~file.versionOk, config |-> unmarshalled(fl.targets, file.targets)]

\* What the comparison and the report of a branch of runMain do: a report that
\* cannot be written ends the run with log.Fatalf.
compareAndReport(e, before) ==
    IF e.reportOk THEN [exit |-> "0", effects |-> before \cup {"compare", "report"}]
    ELSE [exit |-> "1", effects |-> before \cup {"compare"}]

\* Exit with status 1 before anything is done.
refused == [exit |-> "1", effects |-> {}]

\* Mutant of zipConflicts: only a URL conflicts with an archive.
zipConflictsWithURL(c) == c.TargetURL # <<>>

\* The first test of the TargetZip branch of runMain.
zipConflicts(c) == c.TargetURL # <<>> \/ c.TargetPath # <<>>

\* runMain(config): [exit, effects].
runMainOutcome(c, e) ==
    IF c.TargetZip # <<>>
    THEN IF zipConflicts(c) THEN refused
         ELSE IF ~e.targetExists THEN refused
         ELSE compareAndReport(e, {})
    ELSE IF c.TargetPath # <<>>
    THEN IF c.TargetURL # <<>> THEN refused
         ELSE IF ~e.targetExists THEN refused
         ELSE compareAndReport(e, {})
    ELSE IF c.TargetURL # <<>>
    THEN IF ~e.cloneOk THEN [exit |-> "1", effects |-> {"clone"}]
         ELSE compareAndReport(e, {"clone"})
    ELSE refused

\* The command lines and configuration files of a run.
TargetsPool ==
    [TargetURL : {<<>>, <<"u">>}, TargetPath : {<<>>, <<"/", "p">>},
     TargetZip : {<<>>, <<"t", ".", "z", "i", "p">>}]

\* The state when cobra calls PersistentPreRunE, the flags parsed.
InitMain ==
    /\ StackIdle
    /\ MatchIdle
    /\ WalkIdle
    /\ ZipIdle
    /\ CompareIdle
    /\ flags \in [config : {<<>>, <<"c">>}, targets : TargetsPool]
    /\ configFile \in [state : {"notFound", "unreadable", "mistyped", "loaded"},
                       targets : TargetsPool, versionOk : BOOLEAN]
    /\ configFile.state = "notFound" =>
           (configFile.targets = NoTargets /\ ~configFile.versionOk)
    /\ env \in [targetExists : BOOLEAN, cloneOk : BOOLEAN, reportOk : BOOLEAN]
    /\ config = NoTargets
    /\ rpc = "start"
    /\ rExit = "none"
    /\ rEffects = {}

\* PersistentPreRunE returns: nil, or an error that main prints before os.Exit(1).
PersistentPreRunE ==
    /\ rpc = "start"
    /\ LET pre == persistentPreRunE(flags, configFile)
       IN  /\ config' = pre.config
           /\ rpc' = IF pre.err THEN "failed" ELSE "preRun"
           /\ rExit' = IF pre.err THEN "1" ELSE "none"
    /\ UNCHANGED <<flags, configFile, env, rEffects>>
    /\ UNCHANGED <<stackVars, matchVars, walkVars, zipVars, cmpVars>>

\* Run: runMain(&config), to its return or its exit.
RunMain ==
    /\ rpc = "preRun"
    /\ rpc' = "done"
    /\ rExit' = runMainOutcome(config, env).exit
    /\ rEffects' = runMainOutcome(config, env).effects
    /\ UNCHANGED <<flags, configFile, env, config>>
    /\ UNCHANGED <<stackVars, matchVars, walkVars, zipVars, cmpVars>>

NextMain ==
    \/ PersistentPreRunE
    \/ RunMain

SpecMain == InitMain /\ [][NextMain]_vars

(***************************************************************************)
(* Properties of a run (specification SpecMain).                           *)
(***************************************************************************)

\* The number of target fields of a Config that are not empty.
TargetCount(c) ==
    (IF c.TargetURL # <<>> THEN 1 ELSE 0) + (IF c.TargetPath # <<>> THEN 1 ELSE 0)
        + (IF c.TargetZip # <<>> THEN 1 ELSE 0)

\* No configuration file is found (and none is named), and the command line
\* gives a target.
FlagsOnly ==
    /\ flags.config = <<>>
    /\ configFile.state = "notFound"
    /\ flags.targets # NoTargets

\* C23: without a configuration file, the Config runMain gets holds the targets
\* given by flag, and runMain of a run with one existing target compares.
C23_FlagsConfigureWithoutFile ==
    FlagsOnly =>
        /\ rpc \in {"preRun", "done"} => config = flags.targets
        /\ (/\ rpc = "done"
            /\ TargetCount(flags.targets) = 1
            /\ env.targetExists /\ env.cloneOk /\ env.reportOk)
               => "compare" \in rEffects

\* runMain has returned or exited.
RunMainOver == rpc = "done"

\* None or several targets: exit status 1, nothing cloned, compared or written.
WrongTargetCountRefused ==
    (RunMainOver /\ TargetCount(config) # 1) => (rExit = "1" /\ rEffects = {})

TargetUsable ==
    IF config.TargetURL # <<>> THEN env.cloneOk ELSE env.targetExists

====
